---- MODULE Spec2Model ----
(***************************************************************************)
(* Model of the ThermalRes co-simulation core.                             *)
(*                                                                         *)
(* Link monitor: the hysteresis state machine LinkMonitorRef               *)
(* (thermalres/digital/reference.py) and the LinkRunner that wraps it      *)
(* (thermalres/cosim/link_runner.py).                                      *)
(* Kernel: SimConfig (thermalres/config.py), the plant chain               *)
(* (thermalres/plant), the controllers (thermalres/control), the event     *)
(* sampler (thermalres/cosim/events.py) and CoSimKernel.run                *)
(* (thermalres/cosim/kernel.py).                                           *)
(*                                                                         *)
(* The specifications share the variables below:                           *)
(*   Spec        one LinkMonitorRef driven by arbitrary step()/reset()     *)
(*   SpecRunner  one LinkRunner driven by arbitrary step(event)/reset()    *)
(*   SpecReplay  a LinkMonitorRef run, then a second, freshly constructed  *)
(*               LinkMonitorRef fed the recorded inputs again              *)
(*   SpecConfig  construction of SimConfig values and of a kernel on them  *)
(*   SpecKernel  CoSimKernel.run(), one loop iteration per step, followed  *)
(*               by a second run() on the same kernel or by a run of a     *)
(*               second kernel built from fresh components                 *)
(*   SpecKernelFair  one run() of a kernel, with weak fairness of the loop *)
(*               pass and of the return                                    *)
(*                                                                         *)
(* Floating-point values are modelled as exact rationals [n, d]; rounding  *)
(* is not modelled. An Optional value is None or the one-element sequence  *)
(* <<v>>. SimConfig.seed is represented by the stream of draws it          *)
(* determines (rngStream); out_dir and the wall-clock times of the metrics *)
(* are left out.                                                           *)
(***************************************************************************)
EXTENDS Integers, Sequences, FiniteSets, TLC

\* ------------------------------------------------------------------ bounds
\* thresholds fails_to_down / passes_to_up are drawn from 0..MaxThresh
MaxThresh == 4
\* number of step() calls one monitor receives, resets included (Spec)
MaxSteps == 6
\* number of step() calls of the first instance in SpecReplay
MaxReplay == 4
\* number of events one LinkRunner processes, resets included (SpecRunner)
MaxEvents == 3
\* cycle numbers carried by CrcEvents are drawn from 0..MaxCycle
MaxCycle == 1
\* SimConfig.cycles is drawn from -1..MaxRunCycles (SpecKernel, SpecConfig)
MaxRunCycles == 3
\* SimConfig.cycle_chunks is drawn from -1..MaxChunk (SpecKernel, SpecConfig)
MaxChunk == 3
\* number of draws an EventSampler called on its own consumes (SpecSampler)
MaxDraws == 3
\* number of step() calls made on a controller called on its own (SpecController)
MaxCtrlSteps == 3
\* number of step_thermal calls a caller chains (SpecThermal)
MaxThermalSteps == 2
\* number of calls a caller makes on the components after a run (SpecSnapshot)
MaxCalls == 2
\* number of reset() calls on one monitor or runner called on its own
MaxResets == 1

VARIABLES
    params,     \* LinkMonitorParams of the monitor(s): fails_to_down, passes_to_up
    heap,       \* the LinkMonitorState objects allocated so far
    mon,        \* index in heap of the state object of the monitor (self.state)
    inLog,      \* the (valid, crc_fail) inputs of the step() calls since reset
    stLog,      \* the state observed after each of these step() calls (by value)
    lastOp,     \* the last operation called, and how many steps a reset discarded
    events,     \* LinkRunner._events
    samples,    \* LinkRunner._samples
    monB,       \* index in heap of the second monitor's state, 0 before it exists
    replayIdx,  \* number of recorded inputs already fed to the second monitor
    cfg,        \* CoSimKernel._cfg, a SimConfig (None before a kernel exists)
    wiring,     \* which of plant runner, schedule, controller, link runner are configured
    thermal_state, \* PlantRunner.thermal_state.temp_c
    last_outputs,  \* CoSimKernel._last_outputs (None or <<PlantOutputs>>)
    ctrl,       \* the controller: its kind, parameters and internal state
    rngStream,  \* the draws random.Random(cfg.seed) yields, as far as they are known
    rngPos,     \* how many draws the kernel's EventSampler has consumed
    pc,         \* where the kernel is: "idle", "running" (in the loop of run()), "done"
    loc,        \* the locals of run(): cur, idx, chunks, timeseries, events, link_states
    result,     \* the RunResult of the last finished run() (None before)
    firstResult,\* the RunResult of the first run()
    runKind,    \* "first", "rerun" (same kernel) or "fresh" (second kernel)
    history,    \* what the current run() did: controller.step calls, cycles
                \* simulated in closed-loop mode, plant steps
    attempt     \* the last call a caller made and its outcome (SpecConfig and the
                \* specifications of the single components)

kvars == <<cfg, wiring, thermal_state, last_outputs, ctrl, rngStream, rngPos,
           pc, loc, result, firstResult, runKind, history, attempt>>

vars == <<params, heap, mon, inLog, stLog, lastOp, events, samples, monB, replayIdx,
          cfg, wiring, thermal_state, last_outputs, ctrl, rngStream, rngPos,
          pc, loc, result, firstResult, runKind, history, attempt>>

\* ------------------------------------------------------- LinkMonitorParams
Thresholds == 0..MaxThresh

LinkMonitorParams == [fails_to_down : Thresholds, passes_to_up : Thresholds]

\* -------------------------------------------------------- LinkMonitorState
\* The state LinkMonitorRef.__init__ and LinkMonitorRef.reset build.
ResetState ==
    [link_up |-> TRUE, total_frames |-> 0, total_crc_fails |-> 0,
     consec_fails |-> 0, consec_passes |-> 0]

\* A constructor that hands every instance the state object of the first one
\* (state kept on the class instead of on the instance).
LinkMonitorRef_init_shared(h) ==
    IF h = <<>> THEN [heap |-> <<ResetState>>, self |-> 1]
    ELSE [heap |-> h, self |-> 1]

\* LinkMonitorRef.__init__: allocates a new LinkMonitorState for self.state.
LinkMonitorRef_init(h) ==
    [heap |-> Append(h, ResetState), self |-> Len(h) + 1]

\* LinkMonitorRef.reset: self.state becomes a new object in the reset state;
\* the object it was stays as it is.
LinkMonitorRef_reset(h) ==
    [heap |-> Append(h, ResetState), self |-> Len(h) + 1]

\* ---- variants of step() with one plausible slip each
\* thresholds compared with > instead of >= (off by one)
LinkMonitorRef_step_gt(s, p, valid, crc_fail) ==
    IF ~valid THEN s
    ELSE
      LET s1 == [s EXCEPT !.total_frames = @ + 1] IN
      IF crc_fail
      THEN LET s2 == [s1 EXCEPT !.total_crc_fails = @ + 1,
                                !.consec_fails = @ + 1,
                                !.consec_passes = 0]
           IN IF s2.link_up /\ s2.consec_fails > p.fails_to_down
              THEN [s2 EXCEPT !.link_up = FALSE]
              ELSE s2
      ELSE LET s2 == [s1 EXCEPT !.consec_passes = @ + 1,
                                !.consec_fails = 0]
           IN IF ~s2.link_up /\ s2.consec_passes > p.passes_to_up
              THEN [s2 EXCEPT !.link_up = TRUE]
              ELSE s2

\* the link-up check forgets that the link must be down, and the link-down
\* check that it must be up
LinkMonitorRef_step_nostate(s, p, valid, crc_fail) ==
    IF ~valid THEN s
    ELSE
      LET s1 == [s EXCEPT !.total_frames = @ + 1] IN
      IF crc_fail
      THEN LET s2 == [s1 EXCEPT !.total_crc_fails = @ + 1,
                                !.consec_fails = @ + 1,
                                !.consec_passes = 0]
           IN IF s2.consec_fails >= p.fails_to_down
              THEN [s2 EXCEPT !.link_up = FALSE]
              ELSE s2
      ELSE LET s2 == [s1 EXCEPT !.consec_passes = @ + 1,
                                !.consec_fails = 0]
           IN IF s2.consec_passes >= p.passes_to_up
              THEN [s2 EXCEPT !.link_up = ~s2.link_up]
              ELSE s2

\* the streak counters are not reset by the opposite event
LinkMonitorRef_step_nostreak(s, p, valid, crc_fail) ==
    IF ~valid THEN s
    ELSE
      LET s1 == [s EXCEPT !.total_frames = @ + 1] IN
      IF crc_fail
      THEN LET s2 == [s1 EXCEPT !.total_crc_fails = @ + 1,
                                !.consec_fails = @ + 1]
           IN IF s2.link_up /\ s2.consec_fails >= p.fails_to_down
              THEN [s2 EXCEPT !.link_up = FALSE]
              ELSE s2
      ELSE LET s2 == [s1 EXCEPT !.consec_passes = @ + 1]
           IN IF ~s2.link_up /\ s2.consec_passes >= p.passes_to_up
              THEN [s2 EXCEPT !.link_up = TRUE]
              ELSE s2

\* the valid flag is not consulted: every call is processed as a frame
LinkMonitorRef_step_novalid(s, p, valid, crc_fail) ==
    LET s1 == [s EXCEPT !.total_frames = @ + 1] IN
    IF crc_fail
    THEN LET s2 == [s1 EXCEPT !.total_crc_fails = @ + 1,
                              !.consec_fails = @ + 1,
                              !.consec_passes = 0]
         IN IF s2.link_up /\ s2.consec_fails >= p.fails_to_down
            THEN [s2 EXCEPT !.link_up = FALSE]
            ELSE s2
    ELSE LET s2 == [s1 EXCEPT !.consec_passes = @ + 1,
                              !.consec_fails = 0]
         IN IF ~s2.link_up /\ s2.consec_passes >= p.passes_to_up
            THEN [s2 EXCEPT !.link_up = TRUE]
            ELSE s2

\* the frame counter is incremented on the pass path only
LinkMonitorRef_step_framecount(s, p, valid, crc_fail) ==
    IF ~valid THEN s
    ELSE
      IF crc_fail
      THEN LET s2 == [s EXCEPT !.total_crc_fails = @ + 1,
                               !.consec_fails = @ + 1,
                               !.consec_passes = 0]
           IN IF s2.link_up /\ s2.consec_fails >= p.fails_to_down
              THEN [s2 EXCEPT !.link_up = FALSE]
              ELSE s2
      ELSE LET s2 == [s EXCEPT !.total_frames = @ + 1,
                               !.consec_passes = @ + 1,
                               !.consec_fails = 0]
           IN IF ~s2.link_up /\ s2.consec_passes >= p.passes_to_up
              THEN [s2 EXCEPT !.link_up = TRUE]
              ELSE s2

\* LinkMonitorRef.step(valid, crc_fail) on state s with parameters p.
LinkMonitorRef_step(s, p, valid, crc_fail) ==
    IF ~valid THEN s
    ELSE
      LET s1 == [s EXCEPT !.total_frames = @ + 1] IN
      IF crc_fail
      THEN LET s2 == [s1 EXCEPT !.total_crc_fails = @ + 1,
                                !.consec_fails = @ + 1,
                                !.consec_passes = 0]
           IN IF s2.link_up /\ s2.consec_fails >= p.fails_to_down
              THEN [s2 EXCEPT !.link_up = FALSE]
              ELSE s2
      ELSE LET s2 == [s1 EXCEPT !.consec_passes = @ + 1,
                                !.consec_fails = 0]
           IN IF ~s2.link_up /\ s2.consec_passes >= p.passes_to_up
              THEN [s2 EXCEPT !.link_up = TRUE]
              ELSE s2

\* LinkMonitorRef.to_link_state_sample(cycle): an immutable copy of the state.
to_link_state_sample(s, cycle) ==
    [cycle |-> cycle, link_up |-> s.link_up, total_frames |-> s.total_frames,
     total_crc_fails |-> s.total_crc_fails, consec_fails |-> s.consec_fails,
     consec_passes |-> s.consec_passes]

\* LinkMonitorRef.get_state(): the current state of the monitor.
state == heap[mon]

\* ------------------------------------------------------------------ inputs
Frames == [valid : BOOLEAN, crc_fail : BOOLEAN]

NoOp == [op |-> "init", cleared |-> 0]

\* An absent value (Python None) is the empty sequence, a present one <<v>>.
None == <<>>

\* No kernel exists: the kernel variables hold no value.
NoKernel ==
    /\ cfg = None
    /\ wiring = None
    /\ thermal_state = None
    /\ last_outputs = None
    /\ ctrl = None
    /\ rngStream = <<>>
    /\ rngPos = 0
    /\ pc = "idle"
    /\ loc = None
    /\ result = None
    /\ firstResult = None
    /\ runKind = "first"
    /\ history = None
    /\ attempt = None

\* ================================================================== Spec
\* One LinkMonitorRef, constructed with any thresholds.
Init ==
    /\ params \in LinkMonitorParams
    /\ LET n == LinkMonitorRef_init(<<>>) IN heap = n.heap /\ mon = n.self
    /\ inLog = <<>>
    /\ stLog = <<>>
    /\ lastOp = NoOp
    /\ events = <<>>
    /\ samples = <<>>
    /\ monB = 0
    /\ replayIdx = 0
    /\ NoKernel

\* A call monitor.step(valid, crc_fail).
Step(valid, crc_fail) ==
    /\ heap' = [heap EXCEPT ![mon] = LinkMonitorRef_step(heap[mon], params, valid, crc_fail)]
    /\ inLog' = Append(inLog, [valid |-> valid, crc_fail |-> crc_fail])
    /\ stLog' = Append(stLog, heap'[mon])
    /\ lastOp' = [op |-> "step", cleared |-> 0]
    /\ UNCHANGED <<params, mon, events, samples, monB, replayIdx>>
    /\ UNCHANGED kvars

\* A call monitor.reset().
Reset ==
    /\ Len(heap) <= MaxResets
    /\ LET n == LinkMonitorRef_reset(heap) IN heap' = n.heap /\ mon' = n.self
    /\ inLog' = <<>>
    /\ stLog' = <<>>
    /\ lastOp' = [op |-> "reset", cleared |-> Len(inLog)]
    /\ UNCHANGED <<params, events, samples, monB, replayIdx>>
    /\ UNCHANGED kvars

\* Frames counted by the state objects self.state was bound to before.
RECURSIVE EarlierFrames(_, _)
EarlierFrames(h, i) ==
    IF i = 0 THEN 0
    ELSE (IF i = mon THEN 0 ELSE h[i].total_frames) + EarlierFrames(h, i - 1)

\* At most MaxSteps frames reach one monitor, resets included.
MonitorStep ==
    \E f \in Frames :
        /\ Len(inLog) + EarlierFrames(heap, Len(heap)) < MaxSteps
        /\ Step(f.valid, f.crc_fail)

Next == MonitorStep \/ Reset

Spec == Init /\ [][Next]_vars

\* ============================================================ SpecRunner
\* CrcEvent values a caller can hand to LinkRunner.step.
CrcEvents ==
    [cycle : 0..MaxCycle, chunk_idx : {0}, crc_fail : BOOLEAN, crc_fail_prob : {0, 1}]

\* The LinkRunner object: its reference monitor's state and its two histories.
Runner == [ref |-> heap[mon], events |-> events, samples |-> samples]

\* A reset that resets the reference monitor but keeps the histories.
LinkRunner_reset_keep(r) ==
    [r EXCEPT !.ref = ResetState]

\* LinkRunner.reset: resets the reference monitor, clears both histories.
LinkRunner_reset(r) ==
    [ref |-> ResetState, events |-> <<>>, samples |-> <<>>]

\* a step that samples the monitor before stepping it
LinkRunner_step_stale(r, p, event) ==
    [ref |-> LinkMonitorRef_step(r.ref, p, TRUE, event.crc_fail),
     events |-> Append(r.events, event),
     samples |-> Append(r.samples, to_link_state_sample(r.ref, event.cycle))]

\* LinkRunner.step(event): store the event, step the reference monitor with
\* valid = True, store and return a sample of the resulting state.
LinkRunner_step(r, p, event) ==
    LET s == LinkMonitorRef_step(r.ref, p, TRUE, event.crc_fail) IN
    [ref |-> s,
     events |-> Append(r.events, event),
     samples |-> Append(r.samples, to_link_state_sample(s, event.cycle))]

\* LinkRunner.get_samples / get_events: copies of the histories.
get_samples(r) == r.samples
get_events(r) == r.events

\* LinkRunner.get_current_state: the last sample, or None.
get_current_state(r) ==
    IF r.samples # <<>> THEN <<r.samples[Len(r.samples)]>> ELSE None

\* LinkRunner.__init__: a reference monitor with the configured thresholds in
\* the reset state, and empty histories.
InitRunner == Init

\* A call runner.step(event).
RunnerStep(event) ==
    LET r == LinkRunner_step(Runner, params, event) IN
    /\ heap' = [heap EXCEPT ![mon] = r.ref]
    /\ events' = r.events
    /\ samples' = r.samples
    /\ inLog' = Append(inLog, [valid |-> TRUE, crc_fail |-> event.crc_fail])
    /\ stLog' = Append(stLog, r.ref)
    /\ lastOp' = [op |-> "step", cleared |-> 0]
    /\ UNCHANGED <<params, mon, monB, replayIdx>>
    /\ UNCHANGED kvars

\* A call runner.reset(): self._ref.reset() gives the monitor a new state
\* object, and both histories are cleared.
RunnerReset ==
    LET r == LinkRunner_reset(Runner) IN
    /\ Len(heap) <= MaxResets
    /\ heap' = Append(heap, r.ref)
    /\ mon' = Len(heap) + 1
    /\ events' = r.events
    /\ samples' = r.samples
    /\ inLog' = <<>>
    /\ stLog' = <<>>
    /\ lastOp' = [op |-> "reset", cleared |-> Len(events)]
    /\ UNCHANGED <<params, monB, replayIdx>>
    /\ UNCHANGED kvars

\* At most MaxEvents events reach one runner, resets included.
EventsLeft == Len(events) + EarlierFrames(heap, Len(heap)) < MaxEvents

RunnerEvent == \E e \in CrcEvents : EventsLeft /\ RunnerStep(e)

NextRunner == RunnerEvent \/ RunnerReset

SpecRunner == InitRunner /\ [][NextRunner]_vars

\* ============================================================ SpecReplay
\* The first monitor takes up to MaxReplay steps; then a second monitor is
\* constructed with the same parameters and fed the recorded inputs in order.
InitReplay == Init

FirstStep == \E f \in Frames : monB = 0 /\ Len(inLog) < MaxReplay /\ Step(f.valid, f.crc_fail)

\* monB = LinkMonitorRef(params)
Construct ==
    /\ monB = 0
    /\ inLog # <<>>
    /\ LET n == LinkMonitorRef_init(heap) IN heap' = n.heap /\ monB' = n.self
    /\ lastOp' = [op |-> "init", cleared |-> 0]
    /\ UNCHANGED <<params, mon, inLog, stLog, events, samples, replayIdx>>
    /\ UNCHANGED kvars

\* monB.step(valid, crc_fail) with the next recorded input
ReplayStep ==
    /\ monB # 0
    /\ replayIdx < Len(inLog)
    /\ LET f == inLog[replayIdx + 1] IN
         heap' = [heap EXCEPT ![monB] = LinkMonitorRef_step(heap[monB], params, f.valid, f.crc_fail)]
    /\ replayIdx' = replayIdx + 1
    /\ lastOp' = [op |-> "step", cleared |-> 0]
    /\ UNCHANGED <<params, mon, monB, inLog, stLog, events, samples>>
    /\ UNCHANGED kvars

NextReplay == FirstStep \/ Construct \/ ReplayStep

SpecReplay == InitReplay /\ [][NextReplay]_vars

\* ============================================= claims, SpecRunner / SpecReplay

\* C9: after LinkRunner.reset() the monitor is in the initial state (link_up
\* true, all four counters 0), get_samples() and get_events() are empty and
\* get_current_state() is None.
C9_RunnerResetClears ==
    lastOp.op = "reset" =>
        /\ state.link_up = TRUE
        /\ state.total_frames = 0
        /\ state.total_crc_fails = 0
        /\ state.consec_fails = 0
        /\ state.consec_passes = 0
        /\ get_samples(Runner) = <<>>
        /\ get_events(Runner) = <<>>
        /\ get_current_state(Runner) = None

\* reset() was called on a runner that held events and samples
C9_Witness ==
    /\ lastOp.op = "reset"
    /\ lastOp.cleared >= 2

\* C10: a second, freshly constructed monitor with the same thresholds that is
\* fed the inputs the first one was fed is, after each of its steps, in the
\* state the first one was in after the same step.
C10_Replayable ==
    (monB # 0 /\ replayIdx >= 1) => heap[monB] = stLog[replayIdx]

\* the whole recorded run was replayed, through a link-down and a link-up
C10_Witness ==
    /\ monB # 0
    /\ replayIdx = Len(inLog)
    /\ replayIdx >= 3
    /\ \E i \in 1..Len(stLog) : ~stLog[i].link_up
    /\ heap[monB].link_up
    /\ \E i \in 1..Len(inLog) : ~inLog[i].valid


\* ============================================================ claims, Spec
F == params.fails_to_down
P == params.passes_to_up

\* the step from the unprimed to the primed state is one step() call
IsStep == lastOp'.op = "step" /\ Len(inLog') = Len(inLog) + 1
\* the input of that call
StepIn == inLog'[Len(inLog')]

IsFail(f) == f.valid /\ f.crc_fail
IsPass(f) == f.valid /\ ~f.crc_fail

\* every input from position a to position b of the log is a valid failing frame
AllFails(a, b) == \A i \in a..b : IsFail(inLog[i])
\* every input from position a to position b of the log is a valid passing frame
AllPasses(a, b) == \A i \in a..b : IsPass(inLog[i])
\* some input of the log is a valid frame
AnyValid == \E i \in 1..Len(inLog) : inLog[i].valid
\* the log is a strictly alternating stream of valid pass and fail frames
Alternating ==
    /\ \A i \in 1..Len(inLog) : inLog[i].valid
    /\ \A i \in 1..(Len(inLog) - 1) : inLog[i].crc_fail # inLog[i + 1].crc_fail

\* C1: with both thresholds >= 1, a step() call changes link_up from true to
\* false only on a valid failing frame that leaves consec_fails = fails_to_down,
\* from false to true only on a valid passing frame that leaves
\* consec_passes = passes_to_up, and never on an invalid frame.
C1_FlipOnlyAtThreshold ==
    [][(F >= 1 /\ P >= 1 /\ IsStep) =>
         /\ (state.link_up /\ ~state'.link_up) =>
               (IsFail(StepIn) /\ state'.consec_fails = F)
         /\ (~state.link_up /\ state'.link_up) =>
               (IsPass(StepIn) /\ state'.consec_passes = P)
         /\ ~StepIn.valid => (state'.link_up = state.link_up)]_vars

\* the link went down and came up again, each time after a streak of two or more
C1_Witness ==
    /\ F >= 2 /\ P >= 2
    /\ state.link_up
    /\ \E i \in 1..Len(stLog) : ~stLog[i].link_up
    /\ \E i \in 1..Len(inLog) : ~inLog[i].valid

\* C2: from the reset state with fails_to_down = F >= 1, after k < F valid
\* failing frames in a row link_up is still true, and after the F-th one
\* link_up is false with consec_fails = F.
C2_DownAfterFFails ==
    (F >= 1 /\ AllFails(1, Len(inLog))) =>
        /\ (Len(inLog) < F => state.link_up)
        /\ (Len(inLog) = F => (~state.link_up /\ state.consec_fails = F))

\* the default threshold of 4: the fourth failing frame in a row took the link down
C2_Witness ==
    /\ F = 4
    /\ Len(inLog) = 4
    /\ AllFails(1, 4)
    /\ stLog[3].link_up
    /\ ~state.link_up

\* C3: from a DOWN state just produced by a failing frame, with
\* passes_to_up = P >= 1, after k < P valid passing frames in a row link_up is
\* still false, and after the P-th one link_up is true with consec_passes = P
\* and consec_fails = 0.
C3_UpAfterPPasses ==
    \A j \in 1..Len(inLog) :
        (P >= 1 /\ IsFail(inLog[j]) /\ ~stLog[j].link_up /\ AllPasses(j + 1, Len(inLog))) =>
            LET k == Len(inLog) - j IN
            /\ (k < P => ~state.link_up)
            /\ (k = P => /\ state.link_up
                         /\ state.consec_passes = P
                         /\ state.consec_fails = 0)

\* the link was down after a failing frame and the P-th pass (P >= 2) after it
\* brought it up
C3_Witness ==
    /\ P >= 2
    /\ Len(inLog) > P
    /\ LET j == Len(inLog) - P IN
         /\ IsFail(inLog[j])
         /\ ~stLog[j].link_up
         /\ AllPasses(j + 1, Len(inLog))
         /\ ~stLog[Len(inLog) - 1].link_up
    /\ state.link_up

\* C4: from the reset state with both thresholds >= 2, after every step of a
\* strictly alternating stream of valid pass and fail frames link_up is true.
C4_AlternatingKeepsUp ==
    (F >= 2 /\ P >= 2 /\ Alternating) => state.link_up

\* an alternating stream longer than both thresholds together, thresholds 2
C4_Witness ==
    /\ F = 2 /\ P = 2
    /\ Alternating
    /\ Len(inLog) >= 5

\* C5: in every reachable state total_crc_fails <= total_frames.
C5_FailsAtMostFrames ==
    state.total_crc_fails <= state.total_frames

\* failing and passing frames were both counted, and an invalid frame was seen
C5_Witness ==
    /\ state.total_crc_fails >= 2
    /\ state.total_frames > state.total_crc_fails
    /\ \E i \in 1..Len(inLog) : ~inLog[i].valid

\* C6: consec_fails and consec_passes are both zero exactly when no valid frame
\* was processed since construction or the last reset; once a valid frame was
\* processed exactly one of them is nonzero.
C6_ExactlyOneStreak ==
    /\ (state.consec_fails = 0 /\ state.consec_passes = 0) <=> ~AnyValid
    /\ AnyValid => ((state.consec_fails = 0) # (state.consec_passes = 0))

\* a fail streak that followed a pass streak
C6_Witness ==
    /\ state.consec_fails >= 2
    /\ state.total_frames >= state.consec_fails + 2
    /\ IsPass(inLog[1])

\* C7: step(valid = False, crc_fail = x) leaves link_up and the four counters
\* unchanged, for both values of x.
C7_InvalidIsNoOp ==
    [][(IsStep /\ ~StepIn.valid) => state' = state]_vars

\* an invalid frame with crc_fail set arrived while the link was down
C7_Witness ==
    /\ Len(inLog) >= 2
    /\ ~inLog[Len(inLog)].valid
    /\ inLog[Len(inLog)].crc_fail
    /\ ~state.link_up
    /\ state.total_frames >= 1

\* C8: on every step() call total_frames grows by 1 if the frame is valid and
\* by 0 otherwise, and total_crc_fails grows by 1 if the frame is valid and
\* failing and by 0 otherwise; neither ever decreases.
C8_CountersMonotone ==
    [][IsStep =>
         /\ state'.total_frames =
              state.total_frames + (IF StepIn.valid THEN 1 ELSE 0)
         /\ state'.total_crc_fails =
              state.total_crc_fails + (IF IsFail(StepIn) THEN 1 ELSE 0)
         /\ state'.total_frames >= state.total_frames
         /\ state'.total_crc_fails >= state.total_crc_fails]_vars

\* valid passes, valid fails and invalid frames were all processed
C8_Witness ==
    /\ state.total_frames >= 3
    /\ state.total_crc_fails >= 1
    /\ state.total_crc_fails < state.total_frames
    /\ Len(inLog) > state.total_frames

\* ================================================================ numbers
\* Op applied to the values of its arguments: each argument is evaluated
\* once, however often Op uses it.
Ap1(Op(_), a) == CHOOSE r \in {Op(x) : x \in {a}} : TRUE
Ap2(Op(_, _), a, b) == CHOOSE r \in {Op(x, y) : x \in {a}, y \in {b}} : TRUE

\* A float is modelled as the exact rational n/d, d > 0, in lowest terms.
RECURSIVE GCD(_, _)
GCD(a, b) == IF b = 0 THEN a ELSE Ap2(GCD, b, a % b)

IAbs(x) == IF x < 0 THEN -x ELSE x

\* the rational n/d in lowest terms (d # 0)
Rat(n, d) ==
    Ap2(LAMBDA g, s : [n |-> (s * n) \div g, d |-> (s * d) \div g],
        GCD(IAbs(n), IAbs(d)), IF d < 0 THEN -1 ELSE 1)

R0 == [n |-> 0, d |-> 1]
R1 == [n |-> 1, d |-> 1]

\* a + b, a - b, a * b, a / b, -a, abs(a) on floats
RAdd(a, b) ==
    Ap2(LAMBDA x, y :
            Ap1(LAMBDA g : Rat(x.n * (y.d \div g) + y.n * (x.d \div g), (x.d \div g) * y.d),
                GCD(x.d, y.d)),
        a, b)
RNeg(a) == Ap1(LAMBDA x : [n |-> -x.n, d |-> x.d], a)
RSub(a, b) == RAdd(a, RNeg(b))
RMul(a, b) ==
    Ap2(LAMBDA x, y :
            Ap2(LAMBDA g1, g2 : Rat((x.n \div g1) * (y.n \div g2), (x.d \div g2) * (y.d \div g1)),
                GCD(IAbs(x.n), y.d), GCD(IAbs(y.n), x.d)),
        a, b)
RDiv(a, b) == RMul(a, Ap1(LAMBDA y : Rat(y.d, y.n), b))
RAbs(a) == Ap1(LAMBDA x : [n |-> IAbs(x.n), d |-> x.d], a)

\* a < b, a <= b, a > b, a >= b on floats
RLt(a, b) == Ap2(LAMBDA x, y : x.n * y.d < y.n * x.d, a, b)
RLe(a, b) == Ap2(LAMBDA x, y : x.n * y.d <= y.n * x.d, a, b)
RGt(a, b) == RLt(b, a)
RGe(a, b) == RLe(b, a)

\* Python max(a, b) and min(a, b): the first argument unless the second is
\* strictly larger (smaller).
RMax(a, b) == Ap2(LAMBDA x, y : IF RGt(y, x) THEN y ELSE x, a, b)
RMin(a, b) == Ap2(LAMBDA x, y : IF RLt(y, x) THEN y ELSE x, a, b)

\* ================================================================== plant
\* step_thermal without the clamping of its inputs.
step_thermal_noclamp(temp_c, dt_s, heater_duty, workload_frac, p) ==
    LET heater_w == RMul(heater_duty, p.heater_w_max)
        workload_w == RMul(workload_frac, p.workload_w_max)
        p_in == RAdd(heater_w, workload_w)
        temp_delta_from_ambient == RSub(temp_c, p.ambient_c)
        numerator == RSub(RMul(p_in, p.r_th_c_per_w), temp_delta_from_ambient)
        denominator == RMul(p.r_th_c_per_w, p.c_th_j_per_c)
        dt_dt == RDiv(numerator, denominator)
    IN RAdd(temp_c, RMul(dt_s, dt_dt))

\* a thermal step whose heat flow to ambient has the wrong sign
step_thermal_signflip(temp_c, dt_s, heater_duty, workload_frac, p) ==
    LET hd == RMax(R0, RMin(R1, heater_duty))
        wf == RMax(R0, RMin(R1, workload_frac))
        heater_w == RMul(hd, p.heater_w_max)
        workload_w == RMul(wf, p.workload_w_max)
        p_in == RAdd(heater_w, workload_w)
        temp_delta_from_ambient == RSub(temp_c, p.ambient_c)
        numerator == RAdd(RMul(p_in, p.r_th_c_per_w), temp_delta_from_ambient)
        denominator == RMul(p.r_th_c_per_w, p.c_th_j_per_c)
        dt_dt == RDiv(numerator, denominator)
    IN RAdd(temp_c, RMul(dt_s, dt_dt))

\* step_thermal(state, dt_s, heater_duty, workload_frac, p): the temperature of
\* the new ThermalState; state is given by its temp_c.
step_thermal(temp_c, dt_s, heater_duty, workload_frac, p) ==
    LET hd == RMax(R0, RMin(R1, heater_duty))
        wf == RMax(R0, RMin(R1, workload_frac))
        heater_w == RMul(hd, p.heater_w_max)
        workload_w == RMul(wf, p.workload_w_max)
        p_in == RAdd(heater_w, workload_w)
        temp_delta_from_ambient == RSub(temp_c, p.ambient_c)
        numerator == RSub(RMul(p_in, p.r_th_c_per_w), temp_delta_from_ambient)
        denominator == RMul(p.r_th_c_per_w, p.c_th_j_per_c)
        dt_dt == RDiv(numerator, denominator)
    IN RAdd(temp_c, RMul(dt_s, dt_dt))

\* eval_resonator(temp_c, p)
eval_resonator(temp_c, p) ==
    LET temp_delta == RSub(temp_c, p.ambient_c) IN
    Ap1(LAMBDA resonance_nm :
          Ap1(LAMBDA detune_nm :
                [resonance_nm |-> resonance_nm,
                 detune_nm |-> detune_nm,
                 locked |-> RLe(RAbs(detune_nm), p.lock_window_nm)],
              RSub(p.target_lambda_nm, resonance_nm)),
        RAdd(p.lambda0_nm, RMul(p.thermo_optic_nm_per_c, temp_delta)))

\* eval_impairment for a locked resonator, from abs_detune = |detune_nm|
impairment_curve(abs_detune, p) ==
    IF RLe(abs_detune, p.detune_floor_nm) THEN R0
    ELSE IF RGe(abs_detune, p.detune_ceil_nm) THEN R1
    ELSE
      LET span == RSub(p.detune_ceil_nm, p.detune_floor_nm)
          half == Rat(1, 2)
      IN
      Ap2(LAMBDA x, x_50 :
            Ap1(LAMBDA x_norm :
                  LET s == RMul(RMul(x_norm, x_norm),
                                RSub(Rat(3, 1), RMul(Rat(2, 1), x_norm)))
                  IN RMax(R0, RMin(R1, s)),
                IF RGt(x_50, R0) /\ RLt(x_50, R1)
                THEN IF RLe(x, x_50)
                     THEN RMul(half, RDiv(x, x_50))
                     ELSE RAdd(half, RMul(half, RDiv(RSub(x, x_50), RSub(R1, x_50))))
                ELSE x),
          RMax(R0, RMin(R1, RDiv(RSub(abs_detune, p.detune_floor_nm), span))),
          RMax(R0, RMin(R1, RDiv(RSub(p.detune_50_nm, p.detune_floor_nm), span))))

\* an impairment that follows the curve whatever the lock flag
eval_impairment_nolock(detune_nm, locked, p) ==
    Ap1(LAMBDA abs_detune : impairment_curve(abs_detune, p), RAbs(detune_nm))

\* an impairment that follows the curve on the signed detuning
eval_impairment_signed(detune_nm, locked, p) ==
    IF ~locked THEN R1 ELSE impairment_curve(detune_nm, p)

\* eval_impairment(detune_nm, locked, p): the crc_fail_prob
eval_impairment(detune_nm, locked, p) ==
    IF ~locked THEN R1
    ELSE Ap1(LAMBDA abs_detune : impairment_curve(abs_detune, p), RAbs(detune_nm))

\* PlantOutputs(temp_c, resonance_nm, detune_nm, locked, crc_fail_prob) from
\* the new temperature, the resonator's outputs and the failure probability
plant_outputs(new_temp, ro, prob) ==
    [thermal_state |-> new_temp,
     outputs |-> [temp_c |-> new_temp, resonance_nm |-> ro.resonance_nm,
                  detune_nm |-> ro.detune_nm, locked |-> ro.locked,
                  crc_fail_prob |-> prob]]

\* the chain after the thermal step: resonator, then impairment
plant_after_thermal(new_temp, ro, pp) ==
    Ap1(LAMBDA prob : plant_outputs(new_temp, ro, prob),
        eval_impairment(ro.detune_nm, ro.locked, pp.impairment))

\* eval_plant_chain(thermal_state, inputs, thermal_params, resonator_params,
\* impairment_params): the new temperature and the PlantOutputs.
plant_chain_from(new_temp, pp) ==
    Ap1(LAMBDA ro : plant_after_thermal(new_temp, ro, pp),
        eval_resonator(new_temp, pp.resonator))

eval_plant_chain(temp_c, inputs, pp) ==
    Ap1(LAMBDA new_temp : plant_chain_from(new_temp, pp),
        step_thermal(temp_c, inputs.dt_s, inputs.heater_duty,
                     inputs.workload_frac, pp.thermal))

\* ============================================================ controllers
\* PIDController.__init__: the internal state of a new controller
PID_init == [integrator |-> R0, last_error |-> R0, duty |-> R0]

\* PIDController.reset: the internal state it assigns
PID_reset == [integrator |-> R0, last_error |-> R0, duty |-> R0]

\* a PID step whose running integral is not limited
PID_step_nowindup(st, p, inputs) ==
    Ap1(LAMBDA error :
      Ap1(LAMBDA integrator :
        LET p_term == RMul(p.kp, error)
            i_term == RMul(p.ki, integrator)
            d_error == IF RGt(inputs.dt_s, R0)
                       THEN RDiv(RSub(error, st.last_error), inputs.dt_s)
                       ELSE R0
            d_term == RMul(p.kd, d_error)
            delta == RAdd(RAdd(p_term, i_term), d_term)
            duty1 == RAdd(st.duty, delta)
            boost_direction == IF RGt(error, R0) THEN R1 ELSE RNeg(R1)
            duty2 == IF ~inputs.locked
                     THEN RAdd(duty1, RMul(p.unlock_boost, boost_direction))
                     ELSE duty1
        IN Ap1(LAMBDA duty3 :
                 [st |-> [integrator |-> integrator, last_error |-> error, duty |-> duty3],
                  outputs |-> [heater_duty |-> duty3, error |-> error]],
               RMax(p.min_duty, RMin(p.max_duty, duty2))),
        RAdd(st.integrator, RMul(error, inputs.dt_s))),
      RSub(inputs.detune_nm, inputs.detune_target_nm))

\* PIDController.step(inputs) on internal state st with PIDParams p: the new
\* internal state and the ControlOutputs.
PID_step(st, p, inputs) ==
    Ap1(LAMBDA error :
      Ap1(LAMBDA integrator :
        LET p_term == RMul(p.kp, error)
            i_term == RMul(p.ki, integrator)
            d_error == IF RGt(inputs.dt_s, R0)
                       THEN RDiv(RSub(error, st.last_error), inputs.dt_s)
                       ELSE R0
            d_term == RMul(p.kd, d_error)
            delta == RAdd(RAdd(p_term, i_term), d_term)
            duty1 == RAdd(st.duty, delta)
            boost_direction == IF RGt(error, R0) THEN R1 ELSE RNeg(R1)
            duty2 == IF ~inputs.locked
                     THEN RAdd(duty1, RMul(p.unlock_boost, boost_direction))
                     ELSE duty1
        IN Ap1(LAMBDA duty3 :
                 [st |-> [integrator |-> integrator, last_error |-> error, duty |-> duty3],
                  outputs |-> [heater_duty |-> duty3, error |-> error]],
               RMax(p.min_duty, RMin(p.max_duty, duty2))),
        RMax(p.integrator_min,
             RMin(p.integrator_max, RAdd(st.integrator, RMul(error, inputs.dt_s))))),
      RSub(inputs.detune_nm, inputs.detune_target_nm))

\* BangBangController.__init__: the internal state of a new controller
BangBang_init == [current_duty |-> R0]

\* BangBangController.reset: the internal state it assigns
BangBang_reset == [current_duty |-> R0]

\* a bang-bang step that returns and keeps the duty as computed, unclamped
BangBang_step_noclamp(st, p, inputs) ==
    Ap1(LAMBDA error :
      LET duty1 == IF ~inputs.locked
                   THEN RAdd(st.current_duty, RAdd(p.step_size, p.unlock_boost))
                   ELSE IF RLt(error, RNeg(p.detune_deadband_nm))
                   THEN RAdd(st.current_duty, p.step_size)
                   ELSE IF RGt(error, p.detune_deadband_nm)
                   THEN RSub(st.current_duty, p.step_size)
                   ELSE st.current_duty
      IN [st |-> [current_duty |-> duty1],
          outputs |-> [heater_duty |-> duty1, error |-> error]],
      RSub(inputs.detune_nm, inputs.detune_target_nm))

\* a bang-bang step that looks at the error before it looks at the lock flag
BangBang_step_errfirst(st, p, inputs) ==
    Ap1(LAMBDA error :
      LET duty1 == IF RLt(error, RNeg(p.detune_deadband_nm))
                   THEN RAdd(st.current_duty, p.step_size)
                   ELSE IF RGt(error, p.detune_deadband_nm)
                   THEN RSub(st.current_duty, p.step_size)
                   ELSE IF ~inputs.locked
                   THEN RAdd(st.current_duty, RAdd(p.step_size, p.unlock_boost))
                   ELSE st.current_duty
      IN Ap1(LAMBDA duty2 :
               [st |-> [current_duty |-> duty2],
                outputs |-> [heater_duty |-> duty2, error |-> error]],
             RMax(p.min_duty, RMin(p.max_duty, duty1))),
      RSub(inputs.detune_nm, inputs.detune_target_nm))

\* BangBangController.step(inputs) on internal state st with BangBangParams p.
BangBang_step(st, p, inputs) ==
    Ap1(LAMBDA error :
      LET duty1 == IF ~inputs.locked
                   THEN RAdd(st.current_duty, RAdd(p.step_size, p.unlock_boost))
                   ELSE IF RLt(error, RNeg(p.detune_deadband_nm))
                   THEN RAdd(st.current_duty, p.step_size)
                   ELSE IF RGt(error, p.detune_deadband_nm)
                   THEN RSub(st.current_duty, p.step_size)
                   ELSE st.current_duty
      IN Ap1(LAMBDA duty2 :
               [st |-> [current_duty |-> duty2],
                outputs |-> [heater_duty |-> duty2, error |-> error]],
             RMax(p.min_duty, RMin(p.max_duty, duty1))),
      RSub(inputs.detune_nm, inputs.detune_target_nm))

\* a reset() that leaves the controller as it is
Controller_reset_keep(c) == c

\* A controller object c = [kind, p, st]: Controller.reset()
Controller_reset(c) ==
    [c EXCEPT !.st = IF c.kind = "pid" THEN PID_reset ELSE BangBang_reset]

\* Controller.step(inputs): the controller after the call and the ControlOutputs
Controller_step(c, inputs) ==
    LET r == IF c.kind = "pid" THEN PID_step(c.st, c.p, inputs)
             ELSE BangBang_step(c.st, c.p, inputs)
    IN [c |-> [c EXCEPT !.st = r.st], outputs |-> r.outputs]

\* ========================================================== event sampler
\* The values a draw of the generator takes in the model: random() is in
\* [0, 1); 0 is below every positive probability, 1/2 is below some of the
\* probabilities the plant yields and not below others, and 7/8 is below 1
\* only, so that a locked sample with a probability under 7/8 can pass.
DrawLevels == {R0, Rat(1, 2), Rat(7, 8)}

\* EventSampler.__init__(seed): self._rng = random.Random(seed), a generator
\* at the start of the seed's stream.
EventSampler_init == 0

\* a sampler that draws on every call, locked or not
draws_consumed_always(locked) == 1

\* The number of draws sample_crc_event takes from the generator.
draws_consumed(locked) == IF locked THEN 1 ELSE 0

\* an event tagged with the chunk index in place of the cycle
sample_crc_event_idx(cycle, chunk_idx, crc_fail_prob, locked, u) ==
    [cycle |-> chunk_idx, chunk_idx |-> chunk_idx,
     crc_fail |-> IF ~locked THEN TRUE ELSE RLt(u, crc_fail_prob),
     crc_fail_prob |-> crc_fail_prob]

\* an event that is drawn against the probability whatever the lock flag
sample_crc_event_nolock(cycle, chunk_idx, crc_fail_prob, locked, u) ==
    [cycle |-> cycle, chunk_idx |-> chunk_idx,
     crc_fail |-> RLt(u, crc_fail_prob),
     crc_fail_prob |-> crc_fail_prob]

\* EventSampler.sample_crc_event(cycle, chunk_idx, crc_fail_prob, locked),
\* where u is the value self._rng.random() returns if it is called.
sample_crc_event(cycle, chunk_idx, crc_fail_prob, locked, u) ==
    [cycle |-> cycle, chunk_idx |-> chunk_idx,
     crc_fail |-> IF ~locked THEN TRUE ELSE RLt(u, crc_fail_prob),
     crc_fail_prob |-> crc_fail_prob]

\* =============================================================== schedule
\* scenarios.open_loop.DEFAULT_DT, the timestep of every schedule
DEFAULT_DT == Rat(1, 10)

\* A schedule is a function cycle -> PlantInputs; the model's schedules are
\* those scenarios.open_loop.step_workload(heater, workload_low,
\* workload_high, step_at_cycle) returns.
Schedule_call(s, cycle) ==
    [heater_duty |-> s.heater,
     workload_frac |-> IF cycle < s.step_at_cycle THEN s.workload_low ELSE s.workload_high,
     dt_s |-> DEFAULT_DT]

\* ============================================================== SimConfig
\* The arguments a caller may pass: a name that is a non-empty string, the
\* empty string or not a string at all, and integers around the limits.
NameArgs == {[is_str |-> TRUE, text |-> "run"], [is_str |-> TRUE, text |-> ""],
             [is_str |-> FALSE, text |-> ""]}
CyclesArgs == (-1)..MaxRunCycles
ChunkArgs == (-1)..MaxChunk

\* SimConfig(name, cycles, cycle_chunks, seed, out_dir): the dataclass
\* constructor stores its arguments.
SimConfig(name, cycles, cycle_chunks) ==
    [name |-> name, cycles |-> cycles, cycle_chunks |-> cycle_chunks]

\* from_args without the check of cycle_chunks
SimConfig_from_args_nochunk(name, cycles, cycle_chunks) ==
    IF ~name.is_str \/ name.text = "" THEN [raised |-> "ValueError", value |-> None]
    ELSE IF cycles < 0 THEN [raised |-> "ValueError", value |-> None]
    ELSE [raised |-> "", value |-> <<SimConfig(name, cycles, cycle_chunks)>>]

\* SimConfig.from_args(name, cycles, cycle_chunks, seed, out_dir): raises
\* ValueError or returns a SimConfig.
SimConfig_from_args(name, cycles, cycle_chunks) ==
    IF ~name.is_str \/ name.text = "" THEN [raised |-> "ValueError", value |-> None]
    ELSE IF cycles < 0 THEN [raised |-> "ValueError", value |-> None]
    ELSE IF cycle_chunks <= 0 THEN [raised |-> "ValueError", value |-> None]
    ELSE [raised |-> "", value |-> <<SimConfig(name, cycles, cycle_chunks)>>]

\* a SimConfig value that satisfies what from_args checks
ValidConfig(c) ==
    /\ c.name.is_str /\ c.name.text # ""
    /\ c.cycles >= 0
    /\ c.cycle_chunks > 0

\* ============================================================= SpecConfig
\* Construction of SimConfig values, by from_args or by the dataclass
\* constructor, and of a kernel on a constructed value.

\* a constructor that starts the kernel with a plant output already stored
CoSimKernel_init_stale(config) ==
    [cfg |-> <<config>>, rngPos |-> EventSampler_init,
     last_outputs |-> <<[temp_c |-> Rat(25, 1), resonance_nm |-> Rat(1549, 1),
                         detune_nm |-> R1, locked |-> FALSE, crc_fail_prob |-> R1]>>]

\* CoSimKernel.__init__(config, ...): the fields the constructor sets.
CoSimKernel_init(config) ==
    [cfg |-> <<config>>, rngPos |-> EventSampler_init, last_outputs |-> None]

NoWiring == [plant |-> None, schedule |-> None, controller |-> None,
             detune_target_nm |-> R0, link |-> FALSE]

\* No link monitor takes part: its thresholds are fixed.
InitConfig == Init /\ params = [fails_to_down |-> 1, passes_to_up |-> 1]

\* everything but the record of the last construction call
notAttempt == <<params, heap, mon, inLog, stLog, lastOp, events, samples, monB, replayIdx,
                cfg, wiring, thermal_state, last_outputs, ctrl, rngStream, rngPos,
                pc, loc, result, firstResult, runKind, history>>

\* A call SimConfig.from_args(name=..., cycles=..., cycle_chunks=..., ...).
CallFromArgs ==
    \E name \in NameArgs, cycles \in CyclesArgs, cycle_chunks \in ChunkArgs :
        LET r == SimConfig_from_args(name, cycles, cycle_chunks) IN
        /\ attempt' = <<[path |-> "from_args", name |-> name, cycles |-> cycles,
                        cycle_chunks |-> cycle_chunks,
                        raised |-> r.raised, value |-> r.value]>>
        /\ UNCHANGED notAttempt

\* A call SimConfig(name=..., cycles=..., cycle_chunks=..., ...).
CallConstructor ==
    \E name \in NameArgs, cycles \in CyclesArgs, cycle_chunks \in ChunkArgs :
        /\ attempt' = <<[path |-> "direct", name |-> name, cycles |-> cycles,
                        cycle_chunks |-> cycle_chunks,
                        raised |-> "", value |-> <<SimConfig(name, cycles, cycle_chunks)>>]>>
        /\ UNCHANGED notAttempt

\* CoSimKernel(config) on the value the last call returned.
KernelOnConfig ==
    /\ attempt # None
    /\ attempt[1].value # None
    /\ LET k == CoSimKernel_init(attempt[1].value[1]) IN
         /\ cfg' = k.cfg
         /\ rngPos' = k.rngPos
         /\ last_outputs' = k.last_outputs
    /\ wiring' = <<NoWiring>>
    /\ UNCHANGED <<params, heap, mon, inLog, stLog, lastOp, events, samples, monB, replayIdx,
                   thermal_state, ctrl, rngStream, pc, loc, result, firstResult,
                   runKind, history, attempt>>

NextConfig == CallFromArgs \/ CallConstructor \/ KernelOnConfig

SpecConfig == InitConfig /\ [][NextConfig]_vars

\* ============================================================= SpecKernel
\* One CoSimKernel built from freshly constructed components, its run(), a
\* second run() on the same kernel, and the run() of a second kernel built
\* from fresh components with the same arguments.

\* The plant of the model's runs: 25 C ambient, time constant R*C = 1/5 s
\* (two schedule timesteps), resonance 1549 nm + 1 nm/C, target 1550 nm (on
\* target at 26 C).
PlantParams ==
    [thermal |-> [ambient_c |-> Rat(25, 1), r_th_c_per_w |-> Rat(2, 1),
                  c_th_j_per_c |-> Rat(1, 10), heater_w_max |-> R1,
                  workload_w_max |-> Rat(1, 2)],
     resonator |-> [lambda0_nm |-> Rat(1549, 1), thermo_optic_nm_per_c |-> R1,
                    lock_window_nm |-> Rat(1, 2), target_lambda_nm |-> Rat(1550, 1),
                    ambient_c |-> Rat(25, 1)],
     impairment |-> [detune_50_nm |-> Rat(1, 4), detune_floor_nm |-> R0,
                     detune_ceil_nm |-> R1]]

\* initial_temp_c of the PlantRunner: off target and unlocked, or on target
InitialTemps == {Rat(25, 1), Rat(26, 1)}

\* PlantRunner(thermal_params, resonator_params, impairment_params,
\* initial_temp_c) as the caller passes it, or no plant
PlantArgs == {None} \cup {<<[pp |-> PlantParams, initial_temp_c |-> t0]>> : t0 \in InitialTemps}

\* PlantRunner.__init__: the thermal state
PlantRunner_init(initial_temp_c) == initial_temp_c

\* schedules: a heater held at 1/2 with a workload step at cycle 2, and a
\* heater command above the range [0, 1] with no workload
ScheduleArgs ==
    {None,
     <<[heater |-> Rat(1, 2), workload_low |-> R0, workload_high |-> R1,
        step_at_cycle |-> 2]>>,
     <<[heater |-> Rat(3, 2), workload_low |-> R0, workload_high |-> R0,
        step_at_cycle |-> 0]>>}

PIDParams ==
    [kp |-> Rat(1, 2), ki |-> Rat(5, 1), kd |-> Rat(1, 20),
     min_duty |-> R0, max_duty |-> R1,
     integrator_min |-> Rat(-1, 8), integrator_max |-> Rat(1, 8),
     unlock_boost |-> Rat(1, 4)]

BangBangParams ==
    [detune_deadband_nm |-> Rat(1, 8), step_size |-> Rat(1, 4),
     min_duty |-> R0, max_duty |-> R1, unlock_boost |-> Rat(1, 4)]

\* the controller the caller passes, or none
ControllerArgs ==
    {None, <<[kind |-> "pid", p |-> PIDParams]>>,
     <<[kind |-> "bang_bang", p |-> BangBangParams]>>}

\* Controller.__init__: the parameters and the internal state of a new controller
Controller_init(a) ==
    [kind |-> a.kind, p |-> a.p,
     st |-> IF a.kind = "pid" THEN PID_init ELSE BangBang_init]

\* what the caller passes to CoSimKernel besides the configuration
Wirings ==
    [plant : PlantArgs, schedule : ScheduleArgs, controller : ControllerArgs,
     detune_target_nm : {R0}, link : BOOLEAN]

\* LinkMonitorConfig of the link runner in the kernel's runs
KernelLinkParams == [fails_to_down |-> 2, passes_to_up |-> 1]

\* The configurations of the kernel's runs: built by the dataclass
\* constructor, so cycles and cycle_chunks may be out of range.
KernelConfigs ==
    {SimConfig([is_str |-> TRUE, text |-> "run"], cycles, cycle_chunks) :
        cycles \in CyclesArgs, cycle_chunks \in ChunkArgs}

Cfg == cfg[1]
W == wiring[1]
HasPlant == W.plant # None
HasSchedule == W.schedule # None
HasController == W.controller # None
HasLink == W.link

\* The components constructed from the caller's arguments w, and the kernel
\* constructed on them with configuration c.
Construct_kernel(c, w, h) ==
    LET k == CoSimKernel_init(c)
        n == LinkMonitorRef_init(h)
    IN [cfg |-> k.cfg, wiring |-> <<w>>,
        thermal_state |-> IF w.plant = None THEN None
                          ELSE <<PlantRunner_init(w.plant[1].initial_temp_c)>>,
        ctrl |-> IF w.controller = None THEN None
                 ELSE <<Controller_init(w.controller[1])>>,
        last_outputs |-> k.last_outputs, rngPos |-> k.rngPos,
        heap |-> n.heap, mon |-> n.self, events |-> <<>>, samples |-> <<>>]

NoHistory == [ctrl_calls |-> 0, closed_cycles |-> 0, plant_steps |-> 0]

InitKernel ==
    /\ params = KernelLinkParams
    /\ \E c \in KernelConfigs, w \in Wirings :
         LET k == Construct_kernel(c, w, <<>>) IN
         /\ cfg = k.cfg /\ wiring = k.wiring
         /\ thermal_state = k.thermal_state /\ ctrl = k.ctrl
         /\ last_outputs = k.last_outputs /\ rngPos = k.rngPos
         /\ heap = k.heap /\ mon = k.mon
         /\ events = k.events /\ samples = k.samples
    /\ rngStream = <<>>
    /\ inLog = <<>> /\ stLog = <<>> /\ lastOp = NoOp
    /\ monB = 0 /\ replayIdx = 0
    /\ pc = "idle" /\ loc = None /\ result = None /\ firstResult = None
    /\ runKind = "first" /\ history = <<NoHistory>> /\ attempt = None

\* random.Random(seed).random(): the values the next draw can take. The
\* stream of a seed is fixed: a position already drawn has the value it had;
\* a position not drawn before has some value, found when it is first drawn.
NextDraw_unseeded(stream, pos) == DrawLevels

NextDraw(stream, pos) ==
    IF pos < Len(stream) THEN {stream[pos + 1]} ELSE DrawLevels

Min(a, b) == IF a <= b THEN a ELSE b

\* the controller's timestep in closed-loop mode, and the timestep and
\* workload of closed-loop mode without a schedule
DefaultDt == Rat(1, 10)

\* The locals of run() after the prologue.
Run_locals ==
    [cur |-> 0, idx |-> 0, chunks |-> <<>>, timeseries |-> <<>>,
     events |-> <<>>, link_states |-> <<>>]

\* The passes of the body of `while cur < cycles` are written as a chain of
\* operators, each taking what the statements before it have computed.

\* a chunk that ends at cur + step even beyond cycles
Loop_advance_nomin(L, c) ==
    [L EXCEPT !.cur = L.cur + c.cycle_chunks,
              !.idx = L.idx + 1,
              !.chunks = Append(L.chunks,
                  [chunk_idx |-> L.idx, start_cycle |-> L.cur,
                   end_cycle |-> L.cur + c.cycle_chunks])]

\* a pass that records the chunk and leaves cur where it was
Loop_advance_stuck(L, c) ==
    [L EXCEPT !.idx = L.idx + 1,
              !.chunks = Append(L.chunks,
                  [chunk_idx |-> L.idx, start_cycle |-> L.cur,
                   end_cycle |-> Min(L.cur + c.cycle_chunks, c.cycles)])]

\* chunk bounds and the ChunkSummary; cur = nxt and idx += 1
Loop_advance(L, c) ==
    [L EXCEPT !.cur = Min(L.cur + c.cycle_chunks, c.cycles),
              !.idx = L.idx + 1,
              !.chunks = Append(L.chunks,
                  [chunk_idx |-> L.idx, start_cycle |-> L.cur,
                   end_cycle |-> Min(L.cur + c.cycle_chunks, c.cycles)])]

\* closed-loop mode: a controller and a previous plant output
Loop_closed(k, w) == w.plant # None /\ k.ctrl # None /\ k.last_outputs # None

\* open-loop mode: otherwise, a schedule
Loop_open(k, w) == w.plant # None /\ ~Loop_closed(k, w) /\ w.schedule # None

\* controller.step(ControlInputs(dt_s=0.1, <last outputs>, detune_target_nm))
Loop_control(k, w) ==
    Controller_step(k.ctrl[1],
        [dt_s |-> DefaultDt, temp_c |-> k.last_outputs[1].temp_c,
         detune_nm |-> k.last_outputs[1].detune_nm,
         locked |-> k.last_outputs[1].locked,
         crc_fail_prob |-> k.last_outputs[1].crc_fail_prob,
         detune_target_nm |-> w.detune_target_nm])

\* closed-loop inputs whose workload ignores the schedule
Loop_inputs_closed_noworkload(L, w, co) ==
    [heater_duty |-> co.outputs.heater_duty,
     workload_frac |-> R0,
     dt_s |-> IF w.schedule # None
              THEN Schedule_call(w.schedule[1], L.cur).dt_s ELSE DefaultDt]

\* the PlantInputs of closed-loop mode, co being what controller.step returned
Loop_inputs_closed(L, w, co) ==
    [heater_duty |-> co.outputs.heater_duty,
     workload_frac |-> IF w.schedule # None
                       THEN Schedule_call(w.schedule[1], L.cur).workload_frac ELSE R0,
     dt_s |-> IF w.schedule # None
              THEN Schedule_call(w.schedule[1], L.cur).dt_s ELSE DefaultDt]

\* the PlantInputs of open-loop mode
Loop_inputs_open(L, w) ==
    [heater_duty |-> Schedule_call(w.schedule[1], L.cur).heater_duty,
     workload_frac |-> Schedule_call(w.schedule[1], L.cur).workload_frac,
     dt_s |-> Schedule_call(w.schedule[1], L.cur).dt_s]

\* the TimeSeriesSample
Loop_sample(L, inputs, outputs, controller_error, controller_active) ==
    [cycle |-> L.cur, temp_c |-> outputs.temp_c,
     detune_nm |-> outputs.detune_nm, locked |-> outputs.locked,
     crc_fail_prob |-> outputs.crc_fail_prob,
     heater_duty |-> inputs.heater_duty,
     workload_frac |-> inputs.workload_frac,
     controller_error |-> controller_error,
     controller_active |-> controller_active]

\* link_runner.step(event) if a link runner is configured, and the appends
\* to events, link_states and timeseries
Loop_record(L, k, c, w, new_ctrl, pl, event, sample, runner, closed) ==
    [loc |-> [Loop_advance(L, c) EXCEPT
                !.events = Append(L.events, event),
                !.link_states = IF w.link
                                THEN Append(L.link_states, runner.samples[Len(runner.samples)])
                                ELSE L.link_states,
                !.timeseries = Append(L.timeseries, sample)],
     k |-> [thermal_state |-> <<pl.thermal_state>>,
            last_outputs |-> <<pl.outputs>>,
            ctrl |-> new_ctrl,
            runner |-> runner],
     drew |-> draws_consumed(pl.outputs.locked) > 0,
     closed |-> closed,
     stepped |-> TRUE]

\* the sampled event, then the link runner's step
Loop_link(L, k, c, w, new_ctrl, pl, event, sample, closed) ==
    Ap1(LAMBDA runner : Loop_record(L, k, c, w, new_ctrl, pl, event, sample, runner, closed),
        IF w.link THEN LinkRunner_step(k.runner, KernelLinkParams, event)
        ELSE k.runner)

\* plant_runner.step(inputs) has returned pl: sample the event
Loop_event(L, k, c, w, u, new_ctrl, inputs, pl, controller_error, closed) ==
    Ap2(LAMBDA event, sample : Loop_link(L, k, c, w, new_ctrl, pl, event, sample, closed),
        sample_crc_event(L.cur, L.idx, pl.outputs.crc_fail_prob, pl.outputs.locked, u),
        Loop_sample(L, inputs, pl.outputs, controller_error, closed))

\* the inputs are known: step the plant
Loop_plant(L, k, c, w, u, new_ctrl, inputs, controller_error, closed) ==
    Ap2(LAMBDA ins, pl : Loop_event(L, k, c, w, u, new_ctrl, ins, pl, controller_error, closed),
        inputs,
        eval_plant_chain(k.thermal_state[1], inputs, w.plant[1].pp))

\* closed-loop mode, co being what controller.step returned
Loop_body_closed(L, k, c, w, u, co) ==
    Loop_plant(L, k, c, w, u, <<co.c>>, Loop_inputs_closed(L, w, co),
               <<co.outputs.error>>, TRUE)

\* One pass of the body of `while cur < cycles`, on the locals L and the
\* components k = [thermal_state, last_outputs, ctrl, runner], where u is the
\* value the generator returns if it is called: the locals and components
\* after the pass, whether the generator was called, and the mode.
Loop_body(L, k, c, w, u) ==
    IF Loop_closed(k, w)
    THEN Ap1(LAMBDA co : Loop_body_closed(L, k, c, w, u, co), Loop_control(k, w))
    ELSE IF Loop_open(k, w)
    THEN Loop_plant(L, k, c, w, u, k.ctrl, Loop_inputs_open(L, w), None, FALSE)
    ELSE [loc |-> Loop_advance(L, c), k |-> k, drew |-> FALSE, closed |-> FALSE,
          stepped |-> FALSE]

\* The RunResult that run() returns from its locals; the wall-clock
\* start_time and finish_time of the metrics are left out.
RunResult(L, c) ==
    [metrics |-> [total_cycles |-> c.cycles, total_chunks |-> Len(L.chunks),
                  scenario_name |-> c.name],
     chunks |-> L.chunks,
     timeseries |-> L.timeseries,
     events |-> L.events,
     link_states |-> IF L.link_states # <<>> THEN <<L.link_states>> ELSE None]

monitorLogs == <<params, inLog, stLog, lastOp, monB, replayIdx>>

\* run(), from its entry to the loop: fresh locals, controller.reset() and
\* link_runner.reset() if these are configured.
Run_prologue ==
    /\ loc' = <<Run_locals>>
    /\ ctrl' = IF ctrl # None THEN <<Controller_reset(ctrl[1])>> ELSE ctrl
    /\ IF HasLink
       THEN LET r == LinkRunner_reset(Runner) IN
            /\ heap' = Append(heap, r.ref)
            /\ mon' = Len(heap) + 1
            /\ events' = r.events
            /\ samples' = r.samples
       ELSE UNCHANGED <<heap, mon, events, samples>>
    /\ history' = <<NoHistory>>
    /\ result' = None
    /\ pc' = "running"
    /\ UNCHANGED <<cfg, wiring, thermal_state, last_outputs, rngStream, rngPos,
                   firstResult, attempt>>
    /\ UNCHANGED monitorLogs

\* The first call kernel.run().
RunStart ==
    /\ pc = "idle"
    /\ Run_prologue
    /\ UNCHANGED runKind

\* One pass of the loop of run().
LoopIter ==
    /\ pc = "running"
    /\ loc[1].cur < Cfg.cycles
    \* a loop that cannot end (cycle_chunks <= 0) is followed for
    \* MaxRunCycles + 1 passes; no other run has that many
    /\ Len(loc[1].chunks) <= MaxRunCycles
    /\ \E u \in NextDraw(rngStream, rngPos) :
       \E b \in {Loop_body(loc[1],
                            [thermal_state |-> thermal_state, last_outputs |-> last_outputs,
                             ctrl |-> ctrl, runner |-> Runner],
                            Cfg, W, u)} :
         /\ loc' = <<b.loc>>
         /\ thermal_state' = b.k.thermal_state
         /\ last_outputs' = b.k.last_outputs
         /\ ctrl' = b.k.ctrl
         /\ heap' = [heap EXCEPT ![mon] = b.k.runner.ref]
         /\ events' = b.k.runner.events
         /\ samples' = b.k.runner.samples
         /\ rngPos' = IF b.drew THEN rngPos + 1 ELSE rngPos
         /\ rngStream' = IF b.drew /\ rngPos >= Len(rngStream)
                         THEN Append(rngStream, u) ELSE rngStream
         /\ history' = <<[ctrl_calls |-> history[1].ctrl_calls + (IF b.closed THEN 1 ELSE 0),
                          closed_cycles |-> history[1].closed_cycles +
                              (IF b.closed THEN b.loc.cur - loc[1].cur ELSE 0),
                          plant_steps |-> history[1].plant_steps +
                              (IF b.stepped THEN 1 ELSE 0)]>>
    /\ UNCHANGED <<mon, cfg, wiring, pc, result, firstResult, runKind, attempt>>
    /\ UNCHANGED monitorLogs

\* The loop of run() ends and run() returns its RunResult.
RunFinish ==
    /\ pc = "running"
    /\ ~(loc[1].cur < Cfg.cycles)
    /\ result' = <<RunResult(loc[1], Cfg)>>
    /\ firstResult' = IF runKind = "first" THEN result' ELSE firstResult
    /\ pc' = "done"
    /\ UNCHANGED <<heap, mon, events, samples, cfg, wiring, thermal_state, last_outputs,
                   ctrl, rngStream, rngPos, loc, runKind, history, attempt>>
    /\ UNCHANGED monitorLogs

\* A second call run() on the kernel whose first run() has returned.
Rerun ==
    /\ pc = "done"
    /\ runKind = "first"
    /\ runKind' = "rerun"
    /\ Run_prologue

\* A second kernel is built from freshly constructed components with the
\* arguments, the configuration and the seed of the first.
FreshKernel ==
    /\ pc = "done"
    /\ runKind = "first"
    /\ LET k == Construct_kernel(Cfg, W, heap) IN
         /\ cfg' = k.cfg /\ wiring' = k.wiring
         /\ thermal_state' = k.thermal_state /\ ctrl' = k.ctrl
         /\ last_outputs' = k.last_outputs /\ rngPos' = k.rngPos
         /\ heap' = k.heap /\ mon' = k.mon
         /\ events' = k.events /\ samples' = k.samples
    /\ runKind' = "fresh"
    /\ pc' = "idle"
    /\ loc' = None
    /\ history' = <<NoHistory>>
    /\ UNCHANGED <<rngStream, result, firstResult, attempt>>
    /\ UNCHANGED monitorLogs

\* PlantInputs a caller hands to the plant directly: full heater and no
\* workload for one default timestep.
CallerPlantInputs ==
    {[heater_duty |-> R1, workload_frac |-> R0, dt_s |-> DefaultDt]}

\* The caller calls plant.step(inputs) on the kernel's plant after the first
\* run() has returned: the plant's thermal state moves, the kernel's
\* _last_outputs does not.
PlantStepCall ==
    /\ pc = "done"
    /\ runKind = "first"
    /\ HasPlant
    /\ attempt = None
    /\ \E inputs \in CallerPlantInputs :
       \E pl \in {eval_plant_chain(thermal_state[1], inputs, W.plant[1].pp)} :
         /\ thermal_state' = <<pl.thermal_state>>
         /\ attempt' = <<[call |-> "plant.step", inputs |-> inputs,
                          outputs |-> pl.outputs]>>
    /\ UNCHANGED <<heap, mon, events, samples, cfg, wiring, last_outputs, ctrl,
                   rngStream, rngPos, pc, loc, result, firstResult, runKind, history>>
    /\ UNCHANGED monitorLogs

NextKernel ==
    RunStart \/ LoopIter \/ RunFinish \/ Rerun \/ FreshKernel \/ PlantStepCall

SpecKernel == InitKernel /\ [][NextKernel]_vars

\* One call run() of a kernel. run() is a sequential program: its loop and
\* its return are not delayed forever.
NextRun == RunStart \/ LoopIter \/ RunFinish

SpecKernelFair ==
    InitKernel /\ [][NextRun]_vars /\ WF_vars(LoopIter) /\ WF_vars(RunFinish)

\* ----------------------------------------------------- claims, SpecKernel

Returned == pc = "done"
Res == result[1]

\* ceil(a / b) for b > 0
CeilDiv(a, b) == (a + b - 1) \div b

\* C11: for cycles >= 0 and a chunk size > 0, with any of plant, schedule,
\* controller and link runner configured, the chunks of the RunResult
\* partition [0, cycles): chunk i has chunk_idx i, the first starts at 0, each
\* starts where the one before ended and ends at min(start + chunk size,
\* cycles), the last ends at cycles, and total_chunks = len(chunks) =
\* ceil(cycles / chunk size), total_cycles = cycles.
C11_ChunksPartition ==
    (Returned /\ ValidConfig(Cfg)) =>
        LET ch == Res.chunks
            n == Len(ch)
        IN /\ \A i \in 1..n :
                /\ ch[i].chunk_idx = i - 1
                /\ ch[i].start_cycle = IF i = 1 THEN 0 ELSE ch[i - 1].end_cycle
                /\ ch[i].end_cycle = Min(ch[i].start_cycle + Cfg.cycle_chunks, Cfg.cycles)
           /\ (Cfg.cycles > 0) => (n > 0 /\ ch[n].end_cycle = Cfg.cycles)
           /\ Res.metrics.total_chunks = n
           /\ n = CeilDiv(Cfg.cycles, Cfg.cycle_chunks)
           /\ Res.metrics.total_cycles = Cfg.cycles

\* a run with every component configured has returned two chunks, the last
\* shorter than the chunk size
C11_Witness ==
    /\ Returned /\ ValidConfig(Cfg)
    /\ HasPlant /\ HasSchedule /\ HasController /\ HasLink
    /\ Len(Res.chunks) = 2
    /\ Res.chunks[2].end_cycle - Res.chunks[2].start_cycle < Cfg.cycle_chunks

\* C12: with cycles >= 0 and a chunk size > 0, a run() that has started
\* returns, and when it returns the cycle counter equals cycles.
C12_RunTerminates ==
    (pc = "running" /\ ValidConfig(Cfg)) ~> (Returned /\ loc[1].cur = Cfg.cycles)

\* a run of several passes has returned with the counter at cycles
C12_Witness ==
    /\ Returned /\ ValidConfig(Cfg)
    /\ loc[1].idx >= 2
    /\ loc[1].cur = Cfg.cycles

\* C15 (as stated): with a plant and a schedule, the events of the RunResult
\* are one per simulated cycle: one entry for each cycle of [0, cycles).
C15_OneEventPerCycle ==
    (Returned /\ ValidConfig(Cfg) /\ HasPlant /\ HasSchedule) =>
        /\ Len(Res.events) = Cfg.cycles
        /\ \A i \in 1..Len(Res.events) : Res.events[i].cycle = i - 1

\* strictly increasing cycle fields along a list
CyclesIncrease(s) == \A i, j \in 1..Len(s) : i < j => s[i].cycle < s[j].cycle

\* C16: with a plant and a schedule, the RunResult has one time-series sample
\* and one event per chunk: the three lists have one length, the i-th sample
\* and the i-th event carry the start cycle of chunk i, the i-th event carries
\* chunk_idx i, and the cycles increase strictly along both lists.
C16_OneSamplePerChunk ==
    (Returned /\ HasPlant /\ HasSchedule) =>
        /\ Len(Res.timeseries) = Len(Res.chunks)
        /\ Len(Res.events) = Len(Res.chunks)
        /\ \A i \in 1..Len(Res.chunks) :
             /\ Res.timeseries[i].cycle = Res.chunks[i].start_cycle
             /\ Res.events[i].cycle = Res.chunks[i].start_cycle
             /\ Res.events[i].chunk_idx = i - 1
        /\ CyclesIncrease(Res.timeseries)
        /\ CyclesIncrease(Res.events)

\* a run with plant and schedule has returned two or more chunks of two or
\* more cycles
C16_Witness ==
    /\ Returned /\ HasPlant /\ HasSchedule
    /\ Len(Res.events) >= 2
    /\ Res.chunks[1].end_cycle - Res.chunks[1].start_cycle >= 2

\* C17 (as stated): in a run with cycles >= 0 and a chunk size > 0,
\* controller.step has been called once for every cycle simulated in
\* closed-loop mode, and for no other cycle.
C17_ControllerOncePerCycle ==
    ValidConfig(Cfg) => history[1].ctrl_calls = history[1].closed_cycles

\* the monitor state reached from reset after feeding (valid = TRUE,
\* crc_fail = ev[j].crc_fail) for j = 1..i
RECURSIVE ReplayEvents(_, _)
ReplayEvents(ev, i) ==
    IF i = 0 THEN ResetState
    ELSE LinkMonitorRef_step(ReplayEvents(ev, i - 1), KernelLinkParams, TRUE, ev[i].crc_fail)

\* the number of failing events among ev[1..i]
RECURSIVE FailsUpTo(_, _)
FailsUpTo(ev, i) ==
    IF i = 0 THEN 0 ELSE FailsUpTo(ev, i - 1) + (IF ev[i].crc_fail THEN 1 ELSE 0)

\* the list ls is the replay of the events ev through the monitor
IsReplay(ls, ev) ==
    /\ Len(ls) = Len(ev)
    /\ \A i \in 1..Len(ev) :
         /\ ls[i].cycle = ev[i].cycle
         /\ ls[i] = to_link_state_sample(ReplayEvents(ev, i), ev[i].cycle)
         /\ ls[i].total_frames = i
         /\ ls[i].total_crc_fails = FailsUpTo(ev, i)

\* C18 (as stated): with a link runner configured, cycles >= 0 and a chunk
\* size > 0, link_states of the
\* RunResult is a list, the replay of the events of the RunResult through
\* the monitor: of the same length, with the cycles of the events, the i-th
\* entry being the monitor state after the first i events.
C18_LinkStatesReplayEvents ==
    (Returned /\ ValidConfig(Cfg) /\ HasLink) =>
        /\ Res.link_states # None
        /\ IsReplay(Res.link_states[1], Res.events)

\* C18, for the runs that have processed an event: there link_states is a
\* list and it is the replay of the events.
C18_ReplayWhenEvents ==
    (Returned /\ HasLink /\ Res.events # <<>>) =>
        /\ Res.link_states # None
        /\ IsReplay(Res.link_states[1], Res.events)

\* C19: a second kernel, built from freshly constructed components with the
\* configuration, the seed, the schedule and the controller parameters of
\* the first, returns the time-series, the events and the link states that
\* the first returned, element by element.
C19_FreshKernelsAgree ==
    (Returned /\ runKind = "fresh") =>
        /\ Res.timeseries = firstResult[1].timeseries
        /\ Res.events = firstResult[1].events
        /\ Res.link_states = firstResult[1].link_states

\* the second kernel has returned from a closed-loop run with a link runner
\* in which an event was decided by a draw of the generator
C19_Witness ==
    /\ Returned /\ runKind = "fresh"
    /\ HasController /\ HasLink
    /\ Len(Res.events) >= 2
    /\ \E i \in 1..Len(Res.events) :
         /\ RGt(Res.events[i].crc_fail_prob, R0)
         /\ RLt(Res.events[i].crc_fail_prob, R1)
         /\ Res.timeseries[i].controller_active

\* the run state at the start of a run() call is the initial one
RunStateInitial ==
    /\ HasPlant => thermal_state = <<PlantRunner_init(W.plant[1].initial_temp_c)>>
    /\ HasController => ctrl = <<Controller_init(W.controller[1])>>
    /\ HasLink => Runner = [ref |-> ResetState, events |-> <<>>, samples |-> <<>>]
    /\ last_outputs = None
    /\ rngPos = EventSampler_init

\* C20 (as stated): with cycles >= 0 and a chunk size > 0, when a run()
\* call, the first or a second on the same kernel, enters its loop, the thermal state is the caller's initial
\* temperature, the controller and the link monitor are in their reset
\* states, no previous plant output is retained and the sampler is at the
\* start of the seed's stream; and the second run() returns the time-series,
\* events and link states of the first.
C20_RerunFromInitialState ==
    /\ (pc = "running" /\ ValidConfig(Cfg) /\ loc[1] = Run_locals) => RunStateInitial
    /\ (Returned /\ ValidConfig(Cfg) /\ runKind = "rerun") =>
         /\ Res.timeseries = firstResult[1].timeseries
         /\ Res.events = firstResult[1].events
         /\ Res.link_states = firstResult[1].link_states

\* ----------------------------------------------------- claims, SpecConfig

InvalidArgs(a) ==
    \/ ~a.name.is_str
    \/ a.name.text = ""
    \/ a.cycles < 0
    \/ a.cycle_chunks <= 0

\* C13 (as stated): every SimConfig value that exists, by whichever
\* construction path, and every configuration a kernel holds, has a
\* non-empty name, cycles >= 0 and a positive chunk size.
C13_EveryConfigValid ==
    /\ (attempt # None /\ attempt[1].value # None) => ValidConfig(attempt[1].value[1])
    /\ cfg # None => ValidConfig(cfg[1])

\* C14: a from_args call whose name is empty or not a string, whose cycles
\* is negative or whose cycle_chunks is not positive raises ValueError and
\* returns no configuration, and the call leaves the kernel, sampler, plant
\* and monitor state as they were.
C14_FromArgsRejects ==
    [][(/\ attempt' # attempt
        /\ attempt'[1].path = "from_args"
        /\ InvalidArgs(attempt'[1]))
       => (/\ attempt'[1].raised = "ValueError"
           /\ attempt'[1].value = None
           /\ UNCHANGED notAttempt)]_vars

\* from_args has rejected a call whose only fault is a zero chunk size
C14_Witness ==
    /\ attempt # None
    /\ attempt[1].path = "from_args"
    /\ attempt[1].name.is_str /\ attempt[1].name.text # ""
    /\ attempt[1].cycles >= 0
    /\ attempt[1].cycle_chunks = 0
    /\ attempt[1].raised = "ValueError"
    /\ attempt[1].value = None

\* ============================================================ SpecSampler
\* One EventSampler, constructed on a seed and called by a caller of its own
\* with any cycle, probability and lock flag.

\* probabilities a caller hands to sample_crc_event
ProbArgs == {R0, Rat(1, 2), Rat(3, 4), R1}

\* EventSampler(seed): the generator is at the start of the seed's stream.
InitSampler == InitConfig /\ rngPos = EventSampler_init

\* A call sampler.sample_crc_event(cycle, chunk_idx, crc_fail_prob, locked).
SampleCall ==
    /\ rngPos < MaxDraws
    /\ \E cycle \in 0..MaxCycle, crc_fail_prob \in ProbArgs, locked \in BOOLEAN :
       \E u \in NextDraw(rngStream, rngPos) :
       \E e \in {sample_crc_event(cycle, 0, crc_fail_prob, locked, u)} :
         /\ attempt' = <<[call |-> "sample_crc_event", crc_fail_prob |-> crc_fail_prob,
                         locked |-> locked, event |-> e]>>
         /\ rngPos' = rngPos + draws_consumed(locked)
         /\ rngStream' = IF draws_consumed(locked) = 1 /\ rngPos >= Len(rngStream)
                         THEN Append(rngStream, u) ELSE rngStream
    /\ UNCHANGED <<params, heap, mon, inLog, stLog, lastOp, events, samples, monB, replayIdx,
                   cfg, wiring, thermal_state, last_outputs, ctrl,
                   pc, loc, result, firstResult, runKind, history>>

SpecSampler == InitSampler /\ [][SampleCall]_vars

\* ----------------------------------------------------------------- C21
\* C21: sample_crc_event called with locked = false returns an event with
\* crc_fail = true, whatever the probability (0 included) and whatever the
\* generator would have drawn.
C21_UnlockedAlwaysFails ==
    (attempt # None /\ ~attempt[1].locked) => attempt[1].event.crc_fail = TRUE

\* an unlocked call with probability 0 has returned a failing event
C21_Witness ==
    /\ attempt # None
    /\ ~attempt[1].locked
    /\ attempt[1].crc_fail_prob = R0
    /\ attempt[1].event.crc_fail = TRUE

\* The consequence for the kernel (SpecKernel): every event run() records for
\* an unlocked plant output has crc_fail = true.
KernelUnlockedEventsFail ==
    pc # "idle" =>
        \A i \in 1..Len(loc[1].events) :
            ~loc[1].timeseries[i].locked => loc[1].events[i].crc_fail = TRUE

\* ========================================================= SpecController
\* One controller, PID or bang-bang, constructed with any duty range and
\* called by a caller of its own with any sequence of ControlInputs.

\* The variables when no kernel exists: a monitor with the thresholds p, and
\* the controller c or the thermal state t if there is one.
ComponentInit(p, c, t) ==
    /\ params = p
    /\ LET n == LinkMonitorRef_init(<<>>) IN heap = n.heap /\ mon = n.self
    /\ inLog = <<>>
    /\ stLog = <<>>
    /\ lastOp = NoOp
    /\ events = <<>>
    /\ samples = <<>>
    /\ monB = 0
    /\ replayIdx = 0
    /\ cfg = None
    /\ wiring = None
    /\ thermal_state = t
    /\ last_outputs = None
    /\ ctrl = c
    /\ rngStream = <<>>
    /\ rngPos = 0
    /\ pc = "idle"
    /\ loc = None
    /\ result = None
    /\ firstResult = None
    /\ runKind = "first"
    /\ history = None
    /\ attempt = None

\* (min_duty, max_duty) pairs of the parameters: the default range, a range
\* that excludes the initial duty 0, and a pair with min_duty > max_duty
DutyRanges ==
    {[min_duty |-> R0, max_duty |-> R1],
     [min_duty |-> Rat(1, 4), max_duty |-> Rat(3, 4)],
     [min_duty |-> Rat(3, 4), max_duty |-> Rat(1, 4)]}

\* the parameters a caller constructs a controller with
ControllerParams ==
    {[kind |-> "pid", p |-> [PIDParams EXCEPT !.min_duty = d.min_duty,
                                               !.max_duty = d.max_duty]] :
        d \in DutyRanges}
    \cup
    {[kind |-> "bang_bang", p |-> [BangBangParams EXCEPT !.min_duty = d.min_duty,
                                                        !.max_duty = d.max_duty]] :
        d \in DutyRanges}

\* the ControlInputs a caller hands to step(): errors beyond, at the edge of
\* and within the deadband, either lock flag, a zero and a positive timestep
ControlInputArgs ==
    [dt_s : {R0, Rat(1, 2)}, temp_c : {Rat(25, 1)},
     detune_nm : {Rat(-2, 1), Rat(-1, 8), Rat(1, 16), Rat(2, 1)}, locked : BOOLEAN,
     crc_fail_prob : {R0}, detune_target_nm : {R0}]

InitController == \E a \in ControllerParams : ComponentInit([fails_to_down |-> 1, passes_to_up |-> 1], <<Controller_init(a)>>, None)

\* A call controller.step(inputs). When the caller holds a second controller
\* (ctrl[2], constructed by ControllerResetCall below) it hands the same
\* inputs to that one too and notes its outputs as `fresh`.
ControllerStepCall ==
    /\ attempt # None => attempt[1].n < MaxCtrlSteps
    /\ \E inputs \in ControlInputArgs :
       \E r \in {Controller_step(ctrl[1], inputs)} :
       \E f \in {IF Len(ctrl) = 2 THEN <<Controller_step(ctrl[2], inputs)>> ELSE None} :
         /\ ctrl' = IF f = None THEN <<r.c>> ELSE <<r.c, f[1].c>>
         /\ attempt' = <<[call |-> "step", n |-> IF attempt = None THEN 1 ELSE attempt[1].n + 1, inputs |-> inputs,
                         before |-> ctrl[1].st, outputs |-> r.outputs,
                         fresh |-> IF f = None THEN None ELSE <<f[1].outputs>>,
                         cleared |-> IF attempt = None THEN None ELSE attempt[1].cleared]>>
    /\ UNCHANGED <<params, heap, mon, inLog, stLog, lastOp, events, samples, monB, replayIdx,
                   cfg, wiring, thermal_state, last_outputs, rngStream, rngPos,
                   pc, loc, result, firstResult, runKind, history>>

SpecController == InitController /\ [][ControllerStepCall]_vars

\* ----------------------------------------------------------------- C22
\* the duty the controller keeps for its next step
PersistedDuty == IF ctrl[1].kind = "pid" THEN ctrl[1].st.duty ELSE ctrl[1].st.current_duty

InDutyRange(p, d) == RLe(p.min_duty, d) /\ RLe(d, p.max_duty)

\* C22: for a PID or bang-bang controller with min_duty <= max_duty, the
\* heater_duty every step() returns and the duty the step keeps for the next
\* one lie in [min_duty, max_duty], whatever the sequence of inputs.
C22_DutyWithinRange ==
    (attempt # None /\ RLe(ctrl[1].p.min_duty, ctrl[1].p.max_duty)) =>
        /\ InDutyRange(ctrl[1].p, attempt[1].outputs.heater_duty)
        /\ InDutyRange(ctrl[1].p, PersistedDuty)

\* a PID controller with the range [1/4, 3/4] has made its third step from a
\* duty at the upper limit with a positive error, which pushes the duty up
C22_Witness ==
    /\ attempt # None
    /\ ctrl[1].kind = "pid"
    /\ ctrl[1].p.min_duty = Rat(1, 4)
    /\ attempt[1].n = 3
    /\ attempt[1].before.duty = ctrl[1].p.max_duty
    /\ RGt(attempt[1].inputs.detune_nm, R0)
    /\ attempt[1].outputs.heater_duty = ctrl[1].p.max_duty

\* =========================================================== SpecValidate
\* One LinkRunner with a LinkMonitorConfig (thresholds and use_rtl), driven
\* by step(event), reset() and validate_against_rtl(). What lies outside the
\* runner (whether the RTL adapter imports, how `verilator --version` ends,
\* what the RTL simulation does) is an input of the call.

\* LinkMonitorConfig values
LinkMonitorConfigs == [fails_to_down : {1, 2}, passes_to_up : {1}, use_rtl : BOOLEAN]

\* What run_link_monitor_rtl can hand back when the Python samples of its
\* pattern are S: the same samples, one fewer, one more, samples that differ
\* in one compared field, samples that differ in the cycle only; or it raises.
RtlResults(S) ==
    {[raised |-> TRUE, samples |-> <<>>]} \cup
    {[raised |-> FALSE, samples |-> x] :
        x \in IF S = <<>> THEN {<<>>}
              ELSE {S, SubSeq(S, 1, Len(S) - 1), Append(S, S[Len(S)]),
                    [S EXCEPT ![Len(S)].link_up = ~@],
                    [S EXCEPT ![1].consec_passes = @ + 1],
                    [S EXCEPT ![1].cycle = @ + 1]}}

\* How subprocess.run(["verilator", "--version"], text=True, timeout=5)
\* ends. The program ran: it exited with status 0 or with another status,
\* and printed text or bytes that do not decode. It ran too long:
\* "TimeoutExpired". It could not be started: "FileNotFoundError" (no
\* `verilator` on the PATH), "PermissionError" (a file `verilator` without
\* execute permission), "NotADirectoryError" (the PATH names a regular
\* file), "BlockingIOError" (no new process can be made: the user's
\* process limit is reached, whatever is on the PATH), "OSError" (any
\* other failure to start it, such as a file the system cannot execute).
VerilatorChecks ==
    {"exit_0", "exit_0_undecodable", "exit_nonzero", "exit_nonzero_undecodable",
     "TimeoutExpired", "FileNotFoundError", "PermissionError",
     "NotADirectoryError", "BlockingIOError", "OSError"}

\* check_verilator_available() when subprocess.run ends as `run`: text=True
\* decodes the output before run returns, so bytes that do not decode raise
\* UnicodeDecodeError whatever the exit status; a result gives
\* returncode == 0; FileNotFoundError and TimeoutExpired are caught and
\* give False; every other exception passes through.
check_verilator_available(run) ==
    IF run \in {"exit_0_undecodable", "exit_nonzero_undecodable"}
    THEN [raised |-> "UnicodeDecodeError", value |-> FALSE]
    ELSE IF run \in {"exit_0", "exit_nonzero"}
    THEN [raised |-> "", value |-> run = "exit_0"]
    ELSE IF run \in {"FileNotFoundError", "TimeoutExpired"}
    THEN [raised |-> "", value |-> FALSE]
    ELSE [raised |-> run, value |-> FALSE]

\* no simulation has returned yet
NoSim == [raised |-> FALSE, samples |-> <<>>]

\* the environment of a call validate_against_rtl(): whether the adapter
\* imports and how `verilator --version` ends
RtlEnvs == [import_ok : BOOLEAN, verilator : VerilatorChecks]

\* the per-sample comparison: the five state fields, not the cycle
SampleMismatch(py_sample, rtl_sample) ==
    \/ py_sample.link_up # rtl_sample.link_up
    \/ py_sample.total_frames # rtl_sample.total_frames
    \/ py_sample.total_crc_fails # rtl_sample.total_crc_fails
    \/ py_sample.consec_fails # rtl_sample.consec_fails
    \/ py_sample.consec_passes # rtl_sample.consec_passes

\* a returned (success, message); the message is represented by its kind
Returns(success, message) ==
    [raised |-> "", value |-> <<[success |-> success, message |-> message]>>]

\* an exception leaves validate_against_rtl
Raises(exception) == [raised |-> exception, value |-> None]

\* the call has not returned: it goes on to the next statement
Pending == [raised |-> "", value |-> None]

\* validate_against_rtl() up to the call check_verilator_available(): the
\* tests of use_rtl and of self._events, and the import of the adapter.
validate_against_rtl_entry(r, config, env) ==
    IF ~config.use_rtl THEN Returns(TRUE, "disabled")
    ELSE IF r.events = <<>> THEN Returns(TRUE, "no_events")
    ELSE IF ~env.import_ok THEN Returns(FALSE, "import_failed")
    ELSE Pending

\* validate_against_rtl() when check_verilator_available() has ended: its
\* exception leaves the call, False raises RuntimeError, True goes on
validate_against_rtl_checked(env) ==
    LET available == check_verilator_available(env.verilator)
    IN IF available.raised # "" THEN Raises(available.raised)
       ELSE IF ~available.value THEN Raises("RuntimeError")
       ELSE Pending

\* validate_against_rtl() from the end of run_link_monitor_rtl: the
\* comparison of what it handed back with self._samples as they are then
validate_against_rtl_compare(py_samples, sim) ==
    IF sim.raised THEN Returns(FALSE, "sim_failed")
    ELSE IF Len(sim.samples) # Len(py_samples) THEN Returns(FALSE, "count_mismatch")
    ELSE IF \E i \in 1..Len(py_samples) : SampleMismatch(py_samples[i], sim.samples[i])
    THEN Returns(FALSE, "field_mismatch")
    ELSE Returns(TRUE, "passed")

\* LinkRunner(config)
InitValidate == \E c \in LinkMonitorConfigs : ComponentInit(c, None, None)

\* no call validate_against_rtl() is under way
NoValidation == IF attempt = None THEN TRUE ELSE attempt[1].phase = "done"

\* A call runner.validate_against_rtl() in some environment, up to its
\* return or to the start of check_verilator_available(). n_events is the
\* number of events at the test of self._events.
ValidateCall ==
    /\ NoValidation
    /\ \E env \in RtlEnvs :
       \E o \in {validate_against_rtl_entry(Runner, params, env)} :
         attempt' = <<[call |-> "validate_against_rtl",
                       phase |-> IF o = Pending THEN "checking" ELSE "done",
                       env |-> env, n_events |-> Len(events),
                       pattern |-> <<>>, sim |-> NoSim, py_samples |-> <<>>,
                       outcome |-> o]>>
    /\ UNCHANGED notAttempt

\* check_verilator_available() ends, which takes a while (it runs
\* `verilator --version`): the call raises, or it builds the pattern from
\* self._events as they are now and starts run_link_monitor_rtl. `pattern`
\* holds the Python samples of the pattern's events.
ValidateChecked ==
    /\ attempt # None /\ attempt[1].phase = "checking"
    /\ \E o \in {validate_against_rtl_checked(attempt[1].env)} :
         attempt' = <<[attempt[1] EXCEPT
                         !.phase = IF o = Pending THEN "simulating" ELSE "done",
                         !.pattern = samples,
                         !.outcome = o]>>
    /\ UNCHANGED notAttempt

\* run_link_monitor_rtl ends, which takes a while (it runs the simulation):
\* the call compares what it handed back with self._samples as they are now.
ValidateCompared ==
    /\ attempt # None /\ attempt[1].phase = "simulating"
    /\ \E sim \in RtlResults(attempt[1].pattern) :
         attempt' = <<[attempt[1] EXCEPT
                         !.phase = "done",
                         !.sim = sim,
                         !.py_samples = samples,
                         !.outcome = validate_against_rtl_compare(samples, sim)]>>
    /\ UNCHANGED notAttempt

\* A call runner.step(event), between two validations or while one waits
\* for its subprocess; the events differ in crc_fail only.
ValidateEvent ==
    \E e \in {x \in CrcEvents : x.cycle = 0 /\ x.crc_fail_prob = 0} :
        EventsLeft /\ RunnerStep(e)

NextValidate ==
    \/ ValidateEvent \/ RunnerReset
    \/ ValidateCall \/ ValidateChecked \/ ValidateCompared

SpecValidate == InitValidate /\ [][NextValidate]_vars

\* ----------------------------------------------------------------- C23
\* the last validation has ended
Validated == attempt # None /\ attempt[1].phase = "done"

\* Verilator is available: the program on the PATH ran and exited with
\* status 0
VerilatorAvailable(run) == run \in {"exit_0", "exit_0_undecodable"}

\* the call reached check_verilator_available()
ReachedCheck(a) == params.use_rtl /\ a.n_events > 0 /\ a.env.import_ok

\* check_verilator_available() returned True
CheckPassed(a) ==
    check_verilator_available(a.env.verilator) = [raised |-> "", value |-> TRUE]

\* the RTL simulation of the last validation ran and returned samples
SimReturned(a) == ReachedCheck(a) /\ CheckPassed(a) /\ ~a.sim.raised

\* the cases of a validation that returns, as the claim lists them
ReturnedCases(a, o) ==
    /\ ~params.use_rtl => o = Returns(TRUE, "disabled")
    /\ (params.use_rtl /\ a.n_events = 0) => o = Returns(TRUE, "no_events")
    /\ o.raised = "" => (o.value # None /\ o.value[1].success \in BOOLEAN)
    /\ (params.use_rtl /\ a.n_events > 0 /\ ~a.env.import_ok) =>
           o = Returns(FALSE, "import_failed")
    /\ (ReachedCheck(a) /\ CheckPassed(a) /\ a.sim.raised) =>
           o = Returns(FALSE, "sim_failed")
    /\ (SimReturned(a) /\ Len(a.sim.samples) # Len(a.py_samples)) =>
           o = Returns(FALSE, "count_mismatch")
    /\ (SimReturned(a) /\ Len(a.sim.samples) = Len(a.py_samples)
           /\ \E i \in 1..Len(a.py_samples) :
                  SampleMismatch(a.py_samples[i], a.sim.samples[i])) =>
           o = Returns(FALSE, "field_mismatch")

\* C23: validate_against_rtl returns (True, disabled) whenever use_rtl is
\* false, however many events were processed; (True, no-events) when use_rtl
\* is true and no event was processed; (False, message) for an import
\* failure, a failed RTL simulation, a sample-count mismatch or a field
\* mismatch; and it raises only when Verilator is unavailable. In every
\* other case it returns a (success, message) pair.
C23_ValidateOutcomes ==
    Validated =>
      LET a == attempt[1]
          o == a.outcome
      IN /\ ReturnedCases(a, o)
         /\ o.raised # "" =>
                (ReachedCheck(a) /\ ~VerilatorAvailable(a.env.verilator))

\* What holds of the raise: validate_against_rtl raises exactly when it
\* reached check_verilator_available() and that call did not return True,
\* and every case that returns is as the claim lists it.
C23_RaisesOutOfCheck ==
    Validated =>
      LET a == attempt[1]
          o == a.outcome
      IN /\ ReturnedCases(a, o)
         /\ o.raised # "" <=>
                (ReachedCheck(a) /\ ~CheckPassed(a))

\* Verilator ran and exited with status 0, its output did not decode, and
\* validate_against_rtl raised UnicodeDecodeError
C23_RaisedThoughAvailable ==
    /\ Validated
    /\ attempt[1].env.verilator = "exit_0_undecodable"
    /\ attempt[1].outcome = Raises("UnicodeDecodeError")

\* a runner with use_rtl = false that has processed two events was validated
\* in an environment without Verilator, and returned (True, disabled)
C23_DisabledWithEvents ==
    /\ Validated
    /\ ~params.use_rtl
    /\ attempt[1].n_events = 2
    /\ attempt[1].env.verilator = "FileNotFoundError"
    /\ attempt[1].outcome = Returns(TRUE, "disabled")

\* validate_against_rtl has raised each of its exceptions, and has reported
\* each kind of failure
C23_Raised == Validated /\ attempt[1].outcome = Raises("RuntimeError")
C23_RaisedPermission == Validated /\ attempt[1].outcome = Raises("PermissionError")
C23_RaisedNotADirectory == Validated /\ attempt[1].outcome = Raises("NotADirectoryError")
C23_RaisedBlockingIO == Validated /\ attempt[1].outcome = Raises("BlockingIOError")
C23_SimFailed == Validated /\ attempt[1].outcome = Returns(FALSE, "sim_failed")
C23_FieldMismatch == Validated /\ attempt[1].outcome = Returns(FALSE, "field_mismatch")
C23_Passed == Validated /\ attempt[1].outcome = Returns(TRUE, "passed")

\* a step() during the simulation: the simulation handed back the samples
\* of its one-event pattern and the call reports a count mismatch against
\* the two samples the runner holds by then
C23_SteppedDuringSimulation ==
    /\ Validated
    /\ Len(attempt[1].pattern) = 1
    /\ ~attempt[1].sim.raised /\ attempt[1].sim.samples = attempt[1].pattern
    /\ Len(attempt[1].py_samples) = 2
    /\ attempt[1].outcome = Returns(FALSE, "count_mismatch")

\* a reset() during the Verilator check: the pattern is empty though the
\* call had found events
C23_ResetDuringCheck ==
    /\ Validated
    /\ attempt[1].n_events > 0
    /\ attempt[1].pattern = <<>>
    /\ attempt[1].outcome = Returns(TRUE, "passed")

\* ========================================================= SpecImpairment
\* eval_impairment called by a caller of its own on any detuning, lock flag
\* and parameters.

\* detunings (nm, signed) a caller passes
DetuneArgs ==
    {Rat(-2, 1), Rat(-1, 1), Rat(-3, 4), Rat(-1, 2), Rat(-1, 4), Rat(-1, 8), R0,
     Rat(1, 8), Rat(1, 4), Rat(1, 2), Rat(3, 4), R1, Rat(2, 1)}

\* ImpairmentParams a caller passes: the kernel's, with detune_50 off centre;
\* detune_50 above the ceiling; detune_50 at the floor; floor = ceiling;
\* the ceiling below the floor; a negative floor
ImpairmentParamArgs ==
    {PlantParams.impairment,
     [detune_50_nm |-> Rat(2, 1), detune_floor_nm |-> R0, detune_ceil_nm |-> R1],
     [detune_50_nm |-> Rat(1, 4), detune_floor_nm |-> Rat(1, 4), detune_ceil_nm |-> R1],
     [detune_50_nm |-> Rat(1, 2), detune_floor_nm |-> Rat(1, 2), detune_ceil_nm |-> Rat(1, 2)],
     [detune_50_nm |-> Rat(1, 4), detune_floor_nm |-> R1, detune_ceil_nm |-> Rat(1, 2)],
     [detune_50_nm |-> Rat(1, 4), detune_floor_nm |-> Rat(-1, 2), detune_ceil_nm |-> R1]}

\* Two calls eval_impairment(d1, locked, p) and eval_impairment(d2, locked, p).
\* The function keeps no state: a behaviour makes one pair of calls.
ImpairmentCall ==
    /\ attempt = None
    /\ \E d1 \in DetuneArgs, d2 \in DetuneArgs, locked \in BOOLEAN,
          p \in ImpairmentParamArgs :
         attempt' = <<[call |-> "eval_impairment", d1 |-> d1, d2 |-> d2,
                       locked |-> locked, p |-> p,
                       prob1 |-> eval_impairment(d1, locked, p),
                       prob2 |-> eval_impairment(d2, locked, p)]>>
    /\ UNCHANGED notAttempt

SpecImpairment == InitConfig /\ [][ImpairmentCall]_vars

\* ----------------------------------------------------------------- C24
InUnit(x) == RLe(R0, x) /\ RLe(x, R1)

\* C24: every crc_fail_prob eval_impairment returns lies in [0, 1], and it is
\* exactly 1 when locked = false.
C24_UnlockedProbOne ==
    attempt # None =>
        /\ InUnit(attempt[1].prob1)
        /\ ~attempt[1].locked => attempt[1].prob1 = R1

\* an unlocked call with detuning 0, where the curve gives 0, has returned 1
C24_Witness ==
    /\ attempt # None
    /\ ~attempt[1].locked
    /\ attempt[1].d1 = R0
    /\ attempt[1].p = PlantParams.impairment
    /\ attempt[1].prob1 = R1

\* The consequence for the kernel (SpecKernel): every recorded sample has
\* crc_fail_prob in [0, 1], and exactly 1 when it is unlocked; so has the
\* kernel's last plant output.
KernelSamplesProb ==
    pc # "idle" =>
        /\ \A i \in 1..Len(loc[1].timeseries) :
              /\ InUnit(loc[1].timeseries[i].crc_fail_prob)
              /\ ~loc[1].timeseries[i].locked => loc[1].timeseries[i].crc_fail_prob = R1
        /\ last_outputs # None =>
              /\ InUnit(last_outputs[1].crc_fail_prob)
              /\ ~last_outputs[1].locked => last_outputs[1].crc_fail_prob = R1

\* ----------------------------------------------------------------- C26
\* C26: for locked = true and any parameters, eval_impairment is
\* non-decreasing in |detune| and gives the same probability for d and -d.
C26_MonotoneSymmetric ==
    (attempt # None /\ attempt[1].locked) =>
        /\ RLe(RAbs(attempt[1].d1), RAbs(attempt[1].d2)) =>
              RLe(attempt[1].prob1, attempt[1].prob2)
        /\ attempt[1].d2 = RNeg(attempt[1].d1) => attempt[1].prob1 = attempt[1].prob2

\* a locked pair of calls on -1/8 and 1/2 with probabilities strictly between
\* 0 and 1 and strictly increasing
C26_Witness ==
    /\ attempt # None
    /\ attempt[1].locked
    /\ attempt[1].d1 = Rat(-1, 8)
    /\ attempt[1].d2 = Rat(1, 2)
    /\ RLt(R0, attempt[1].prob1)
    /\ RLt(attempt[1].prob1, attempt[1].prob2)
    /\ RLt(attempt[1].prob2, R1)

\* ============================================================ SpecThermal
\* step_thermal called by a caller of its own: the caller holds a
\* ThermalState, calls step_thermal on it with any timestep, heater duty and
\* workload fraction, and goes on with the state the call returned.

\* the ThermalParams of the caller's calls: time constant R*C = 1 s
ThermalCallParams == [PlantParams.thermal EXCEPT !.c_th_j_per_c = Rat(1, 2)]

\* temperatures of the caller's first ThermalState
ThermalTemps == InitialTemps \cup {Rat(30, 1)}

\* the arguments of a call: timesteps below, at and above the time constant
\* R_th * C_th = 1, heater duties and workload fractions within and outside
\* [0, 1]
ThermalInputArgs ==
    [dt_s : {Rat(1, 10), Rat(1, 2), R1, Rat(2, 1)},
     heater_duty : {Rat(-1, 2), R0, Rat(1, 2), Rat(3, 2)},
     workload_frac : {R0, Rat(2, 1)}]

\* max(0.0, min(1.0, x)), as a caller computes it
Clamp01(x) == RMax(R0, RMin(R1, x))

\* The call step_thermal(state, ...) as its caller sees it: the returned
\* ThermalState, and the ThermalState passed in as it is after the call.
\* step_thermal reads state.temp_c and never assigns it.
step_thermal_call(st, dt_s, heater_duty, workload_frac, p) ==
    [ret |-> step_thermal(st, dt_s, heater_duty, workload_frac, p),
     state |-> st]

InitThermal ==
    \E t \in ThermalTemps :
        ComponentInit([fails_to_down |-> 1, passes_to_up |-> 1], None, <<t>>)

\* A call step_thermal(state, dt_s, heater_duty, workload_frac, p) and, on the
\* same state, the call with the duty and the fraction clamped by the caller;
\* the caller goes on with the state the first call returned.
ThermalStepCall ==
    /\ attempt # None => attempt[1].n < MaxThermalSteps
    /\ \E a \in ThermalInputArgs :
       \E r \in {step_thermal_call(thermal_state[1], a.dt_s, a.heater_duty,
                                    a.workload_frac, ThermalCallParams)} :
       \E rc \in {step_thermal_call(r.state, a.dt_s, Clamp01(a.heater_duty),
                                     Clamp01(a.workload_frac), ThermalCallParams)} :
         /\ attempt' = <<[call |-> "step_thermal",
                         n |-> IF attempt = None THEN 1 ELSE attempt[1].n + 1,
                         dt_s |-> a.dt_s, heater_duty |-> a.heater_duty,
                         workload_frac |-> a.workload_frac,
                         before |-> thermal_state[1], state_after |-> rc.state,
                         ret |-> r.ret, ret_clamped |-> rc.ret]>>
         /\ thermal_state' = <<r.ret>>
    /\ UNCHANGED <<params, heap, mon, inLog, stLog, lastOp, events, samples, monB, replayIdx,
                   cfg, wiring, last_outputs, ctrl, rngStream, rngPos,
                   pc, loc, result, firstResult, runKind, history>>

SpecThermal == InitThermal /\ [][ThermalStepCall]_vars

\* ----------------------------------------------------------------- C25
\* the last call had zero input power and a temperature above ambient
ZeroPowerAboveAmbient ==
    /\ attempt # None
    /\ attempt[1].heater_duty = R0
    /\ attempt[1].workload_frac = R0
    /\ RGt(attempt[1].before, ThermalCallParams.ambient_c)

\* the time constant R_th * C_th
TimeConstant == RMul(ThermalCallParams.r_th_c_per_w, ThermalCallParams.c_th_j_per_c)

\* the last call lowered the temperature and kept it above ambient
CooledTowardAmbient ==
    /\ RLt(attempt[1].ret, attempt[1].before)
    /\ RGt(attempt[1].ret, ThermalCallParams.ambient_c)

\* C25: with zero input power and a temperature above ambient, every
\* step_thermal step with a positive timestep strictly decreases the
\* temperature and keeps it above ambient.
C25_CoolsForEveryTimestep ==
    (ZeroPowerAboveAmbient /\ RGt(attempt[1].dt_s, R0)) => CooledTowardAmbient

\* What holds instead: the step cools and stays above ambient when the
\* timestep is below the time constant, 0 < dt_s < R_th * C_th.
CoolsBelowTimeConstant ==
    (ZeroPowerAboveAmbient /\ RGt(attempt[1].dt_s, R0)
        /\ RLt(attempt[1].dt_s, TimeConstant)) => CooledTowardAmbient

\* the second of two chained zero-power steps with dt_s = 1/2, from above
\* ambient, has cooled the state and left it above ambient
CooledTwice ==
    /\ ZeroPowerAboveAmbient
    /\ attempt[1].n = 2
    /\ attempt[1].dt_s = Rat(1, 2)
    /\ RLt(attempt[1].before, Rat(30, 1))
    /\ CooledTowardAmbient

\* ----------------------------------------------------------------- C27
\* C27: for any heater duty and workload fraction, step_thermal returns what
\* it returns for the values clamped to [0, 1], and the ThermalState passed in
\* is as it was.
C27_ClampsInputs ==
    attempt # None =>
        /\ attempt[1].ret = attempt[1].ret_clamped
        /\ attempt[1].state_after = attempt[1].before

\* a call with heater duty 3/2 and workload fraction 2, both above the range
C27_Witness ==
    /\ attempt # None
    /\ attempt[1].heater_duty = Rat(3, 2)
    /\ attempt[1].workload_frac = Rat(2, 1)
    /\ attempt[1].ret = attempt[1].ret_clamped
    /\ attempt[1].ret # attempt[1].before

\* ============================================== claims of SpecKernel, ctd.
\* ----------------------------------------------------------------- C28
\* C28: in the RunResult of a run with cycles >= 0 and a chunk size > 0,
\* link_states is None exactly when no link runner was configured; with a
\* link runner it is a list (empty when no event was processed).
C28_LinkStatesNoneIffNoRunner ==
    (Returned /\ ValidConfig(Cfg)) => (Res.link_states = None <=> ~HasLink)

\* What holds instead: link_states is None exactly when no link runner was
\* configured or the run recorded no event.
LinkStatesNoneIffNoEvents ==
    Returned => (Res.link_states = None <=> (~HasLink \/ Res.events = <<>>))

\* ----------------------------------------------------------------- C29
\* the run in progress or finished is the first run of its kernel
FreshRun == pc # "idle" /\ runKind # "rerun"

\* the ControlInputs the kernel builds from a recorded plant output
ControlInputsOf(sample) ==
    [dt_s |-> DefaultDt, temp_c |-> sample.temp_c, detune_nm |-> sample.detune_nm,
     locked |-> sample.locked, crc_fail_prob |-> sample.crc_fail_prob,
     detune_target_nm |-> W.detune_target_nm]

\* What controller.step returns for the plant step i >= 2 of the time-series
\* ts, when the controller starts reset and is fed, step by step, the plant
\* output of the step before.
RECURSIVE ControllerReplay(_, _)
ControllerReplay(ts, i) ==
    Controller_step(IF i = 2 THEN Controller_init(W.controller[1])
                    ELSE ControllerReplay(ts, i - 1).c,
                    ControlInputsOf(ts[i - 1]))

\* C29: in a run on a fresh kernel with plant, controller and schedule, the
\* first plant step takes its heater duty from the schedule and is recorded
\* with controller_active = false and controller_error = None; every later
\* plant step takes its heater duty from controller.step, fed the output of
\* the step before, and is recorded with controller_active = true and the
\* controller's error; in every step the workload fraction is the schedule's
\* value at the chunk's start cycle.
C29_OpenThenClosedLoop ==
    (FreshRun /\ HasPlant /\ HasController /\ HasSchedule) =>
        LET ts == loc[1].timeseries IN
        \A i \in 1..Len(ts) :
            /\ ts[i].workload_frac = Schedule_call(W.schedule[1], ts[i].cycle).workload_frac
            /\ i = 1 =>
                  /\ ts[i].heater_duty = Schedule_call(W.schedule[1], ts[i].cycle).heater_duty
                  /\ ts[i].controller_active = FALSE
                  /\ ts[i].controller_error = None
            /\ i > 1 =>
                  /\ ts[i].heater_duty = ControllerReplay(ts, i).outputs.heater_duty
                  /\ ts[i].controller_active = TRUE
                  /\ ts[i].controller_error = <<ControllerReplay(ts, i).outputs.error>>

\* a first run with all three configured has returned three plant steps, the
\* first open-loop, the others closed-loop, across the schedule's workload
\* step, with a controller duty that differs from the schedule's
C29_Witness ==
    /\ Returned /\ runKind = "first"
    /\ HasPlant /\ HasController /\ HasSchedule
    /\ Len(Res.timeseries) = 3
    /\ ~Res.timeseries[1].controller_active
    /\ Res.timeseries[3].controller_active
    /\ Res.timeseries[3].workload_frac # Res.timeseries[1].workload_frac
    /\ Res.timeseries[3].heater_duty # Res.timeseries[1].heater_duty

\* ----------------------------------------------------------------- C30
\* C30: in a run on a fresh kernel with a plant and a controller but no
\* schedule, no plant step is made and controller.step is never called; the
\* time-series and the events stay empty throughout, the plant keeps its
\* initial temperature (until the caller steps the plant after the run), and
\* the run returns all its chunk summaries.
C30_NoScheduleNoSteps ==
    (FreshRun /\ HasPlant /\ HasController /\ ~HasSchedule) =>
        /\ loc[1].timeseries = <<>>
        /\ loc[1].events = <<>>
        /\ history[1].ctrl_calls = 0
        /\ history[1].plant_steps = 0
        /\ last_outputs = None
        /\ attempt = None =>
              thermal_state = <<PlantRunner_init(W.plant[1].initial_temp_c)>>
        /\ ctrl = <<Controller_init(W.controller[1])>>
        /\ (Returned /\ ValidConfig(Cfg)) =>
              /\ Res.timeseries = <<>> /\ Res.events = <<>>
              /\ Len(Res.chunks) = CeilDiv(Cfg.cycles, Cfg.cycle_chunks)
              /\ \A i \in 1..Len(Res.chunks) :
                    /\ Res.chunks[i].chunk_idx = i - 1
                    /\ Res.chunks[i].start_cycle = (i - 1) * Cfg.cycle_chunks
                    /\ Res.chunks[i].end_cycle = Min(i * Cfg.cycle_chunks, Cfg.cycles)

\* a first run with plant and controller and no schedule has returned its
\* three chunks and nothing else
C30_Witness ==
    /\ Returned /\ runKind = "first"
    /\ HasPlant /\ HasController /\ ~HasSchedule
    /\ Len(Res.chunks) = 3
    /\ Res.timeseries = <<>>
    /\ Res.events = <<>>

\* ============================================= claims of SpecSampler, ctd.
\* ----------------------------------------------------------------- C31
\* the draws revealed so far stay as they are: a is a prefix of b
IsPrefix(a, b) == Len(a) <= Len(b) /\ \A i \in 1..Len(a) : a[i] = b[i]

\* C31: a call of sample_crc_event with locked = true consumes exactly one
\* draw of the seed's stream, the next one, and its event fails exactly when
\* that draw is below the probability; a call with locked = false consumes
\* none. The stream itself never changes. So the generator's position is the
\* number of locked calls, and the k-th locked call compares against the
\* k-th draw however many unlocked calls lie in between.
C31_OneDrawPerLockedSample ==
    [][/\ IsPrefix(rngStream, rngStream')
       /\ attempt'[1].locked =>
             /\ rngPos' = rngPos + 1
             /\ Len(rngStream') >= rngPos'
             /\ attempt'[1].event.crc_fail =
                    RLt(rngStream'[rngPos'], attempt'[1].crc_fail_prob)
       /\ ~attempt'[1].locked =>
             /\ rngPos' = rngPos
             /\ rngStream' = rngStream]_vars

\* the third locked call has compared probability 1/2 with the third draw,
\* which is 0 where the first draw of the stream is 1/2: the event fails
C31_Witness ==
    /\ attempt # None
    /\ attempt[1].locked
    /\ rngPos = 3
    /\ rngStream[1] = Rat(1, 2)
    /\ rngStream[3] = R0
    /\ attempt[1].crc_fail_prob = Rat(1, 2)
    /\ attempt[1].event.crc_fail = TRUE

\* The consequence for a run of a fresh kernel (SpecKernel): the generator's
\* position is the number of locked samples recorded, and the event of the
\* k-th locked sample fails exactly when the k-th draw is below the sample's
\* probability.
RECURSIVE LockedUpTo(_, _)
LockedUpTo(ts, i) ==
    IF i = 0 THEN 0 ELSE LockedUpTo(ts, i - 1) + (IF ts[i].locked THEN 1 ELSE 0)

KernelLockedSamplesInOrder ==
    FreshRun =>
        /\ rngPos = LockedUpTo(loc[1].timeseries, Len(loc[1].timeseries))
        /\ \A i \in 1..Len(loc[1].timeseries) :
              loc[1].timeseries[i].locked =>
                  loc[1].events[i].crc_fail =
                      RLt(rngStream[LockedUpTo(loc[1].timeseries, i)],
                          loc[1].timeseries[i].crc_fail_prob)

\* ========================================== claims of SpecController, ctd.
\* the last call was a step() of a bang-bang controller
BangBangStepped == attempt # None /\ ctrl[1].kind = "bang_bang"

\* the error of the last step, detune_nm - detune_target_nm
StepError == RSub(attempt[1].inputs.detune_nm, attempt[1].inputs.detune_target_nm)

\* ----------------------------------------------------------------- C32
\* the change of duty the claim states for the last step
StatedDelta ==
    LET p == ctrl[1].p IN
    IF ~attempt[1].inputs.locked THEN RAdd(p.step_size, p.unlock_boost)
    ELSE IF RLt(StepError, RNeg(p.detune_deadband_nm)) THEN p.step_size
    ELSE IF RGt(StepError, p.detune_deadband_nm) THEN RNeg(p.step_size)
    ELSE R0

\* the last step returned and kept clamp(duty + delta, min_duty, max_duty)
FollowsStatedLaw ==
    /\ PersistedDuty = RMax(ctrl[1].p.min_duty,
                            RMin(ctrl[1].p.max_duty,
                                 RAdd(attempt[1].before.current_duty, StatedDelta)))
    /\ attempt[1].outputs.heater_duty = PersistedDuty

\* the last step was locked with |error| <= deadband
HoldStep ==
    /\ attempt[1].inputs.locked
    /\ RLe(RAbs(StepError), ctrl[1].p.detune_deadband_nm)

\* C32 (as stated): BangBangController.step sets duty' = clamp(duty + delta,
\* min_duty, max_duty) with delta = step_size + unlock_boost when unlocked,
\* +step_size when locked with error < -deadband, -step_size when locked with
\* error > +deadband and 0 otherwise, and a locked step with |error| <=
\* deadband leaves the persisted duty unchanged.
C32_StepLawHoldUnchanged ==
    BangBangStepped =>
        /\ FollowsStatedLaw
        /\ HoldStep => PersistedDuty = attempt[1].before.current_duty

\* C32 (amended): the same law; a locked step with |error| <= deadband
\* leaves the persisted duty unchanged when that duty lies in [min_duty,
\* max_duty], and moves it to the nearer limit otherwise.
C32_StepLaw ==
    BangBangStepped =>
        /\ FollowsStatedLaw
        /\ (HoldStep /\ InDutyRange(ctrl[1].p, attempt[1].before.current_duty)) =>
                PersistedDuty = attempt[1].before.current_duty
        /\ (HoldStep /\ RLe(ctrl[1].p.min_duty, ctrl[1].p.max_duty)
                /\ RLt(attempt[1].before.current_duty, ctrl[1].p.min_duty)) =>
                PersistedDuty = ctrl[1].p.min_duty

\* an unlocked step with an error above the positive deadband has raised the
\* duty by step_size + unlock_boost, from 1/4 to 3/4, within the range [0, 1]
C32_Witness ==
    /\ BangBangStepped
    /\ ~attempt[1].inputs.locked
    /\ RGt(StepError, ctrl[1].p.detune_deadband_nm)
    /\ attempt[1].before.current_duty = Rat(1, 4)
    /\ PersistedDuty = Rat(3, 4)
    /\ ctrl[1].p.max_duty = R1

\* a locked step within the deadband has held a duty of 1/4
HeldInRange ==
    /\ BangBangStepped /\ HoldStep
    /\ attempt[1].before.current_duty = Rat(1, 4)
    /\ PersistedDuty = Rat(1, 4)
    /\ ctrl[1].p.min_duty = R0

\* ----------------------------------------------------------------- C33
\* C33: while locked, the bang-bang controller does not raise the duty when
\* error < -deadband (resonator hotter than target) and does not lower the
\* duty when error > +deadband (resonator colder than target).
C33_NegativeFeedback ==
    (BangBangStepped /\ attempt[1].inputs.locked) =>
        /\ RLt(StepError, RNeg(ctrl[1].p.detune_deadband_nm)) =>
               RLe(PersistedDuty, attempt[1].before.current_duty)
        /\ RGt(StepError, ctrl[1].p.detune_deadband_nm) =>
               RGe(PersistedDuty, attempt[1].before.current_duty)

\* what the code does instead: within a satisfiable duty range a locked step
\* never lowers the duty when error < -deadband and never raises it when
\* error > +deadband
PositiveFeedback ==
    (BangBangStepped /\ attempt[1].inputs.locked
        /\ InDutyRange(ctrl[1].p, attempt[1].before.current_duty)) =>
        /\ RLt(StepError, RNeg(ctrl[1].p.detune_deadband_nm)) =>
               RGe(PersistedDuty, attempt[1].before.current_duty)
        /\ RGt(StepError, ctrl[1].p.detune_deadband_nm) =>
               RLe(PersistedDuty, attempt[1].before.current_duty)

\* a locked step with error -2 < -deadband has raised the duty from 0 to 1/4
RaisedWhenHot ==
    /\ BangBangStepped /\ attempt[1].inputs.locked
    /\ StepError = Rat(-2, 1)
    /\ attempt[1].before.current_duty = R0
    /\ PersistedDuty = Rat(1, 4)

\* ----------------------------------------------------------------- C34
\* the last call was a step() of a PID controller
PIDStepped == attempt # None /\ ctrl[1].kind = "pid"

\* the duty a PID step yields from the proportional and integral terms alone,
\* with the unlock boost and the clamp, for the running integral it has kept
DutyWithoutDerivative ==
    LET p == ctrl[1].p
        raw == RAdd(attempt[1].before.duty,
                    RAdd(RMul(p.kp, StepError), RMul(p.ki, ctrl[1].st.integrator)))
        boosted == IF attempt[1].inputs.locked THEN raw
                   ELSE IF RGt(StepError, R0) THEN RAdd(raw, p.unlock_boost)
                   ELSE RSub(raw, p.unlock_boost)
    IN RMax(p.min_duty, RMin(p.max_duty, boosted))

\* C34: for PIDController with integrator_min <= integrator_max the running
\* integral lies in [integrator_min, integrator_max] after every step(), and a
\* step with dt_s = 0 completes, returning outputs, with a derivative
\* contribution of 0 (and the running integral it started from, limited).
C34_IntegratorBounded ==
    (PIDStepped /\ RLe(ctrl[1].p.integrator_min, ctrl[1].p.integrator_max)) =>
        /\ RLe(ctrl[1].p.integrator_min, ctrl[1].st.integrator)
        /\ RLe(ctrl[1].st.integrator, ctrl[1].p.integrator_max)
        /\ attempt[1].inputs.dt_s = R0 =>
              /\ attempt[1].outputs.heater_duty = DutyWithoutDerivative
              /\ attempt[1].outputs.error = StepError
              /\ ctrl[1].st.integrator =
                     RMax(ctrl[1].p.integrator_min,
                          RMin(ctrl[1].p.integrator_max, attempt[1].before.integrator))

\* a step with error 2 over dt_s = 1/2 would have taken the running integral
\* to 1 and has left it at integrator_max = 1/8
C34_Witness ==
    /\ PIDStepped
    /\ StepError = Rat(2, 1) /\ attempt[1].inputs.dt_s = Rat(1, 2)
    /\ attempt[1].before.integrator = R0
    /\ ctrl[1].st.integrator = ctrl[1].p.integrator_max
    /\ ctrl[1].p.integrator_max = Rat(1, 8)

\* a step with dt_s = 0 whose error differs from the previous step's error
ZeroTimestepStep ==
    /\ PIDStepped
    /\ attempt[1].inputs.dt_s = R0
    /\ attempt[1].before.last_error # StepError
    /\ attempt[1].before.integrator # R0
    /\ ctrl[1].p.kd # R0

\* ================================================== SpecControllerReset
\* A caller steps a controller, calls reset() on it, constructs a second
\* controller with the same parameters and from then on steps both with the
\* same inputs.
NotCtrl == <<params, heap, mon, inLog, stLog, lastOp, events, samples, monB, replayIdx,
             cfg, wiring, thermal_state, last_outputs, rngStream, rngPos,
             pc, loc, result, firstResult, runKind, history>>

\* A call controller.reset(), followed by the construction of a new controller
\* with the same parameters; `cleared` notes the state reset() found.
ControllerResetCall ==
    /\ ctrl' = <<Controller_reset(ctrl[1]),
                 Controller_init([kind |-> ctrl[1].kind, p |-> ctrl[1].p])>>
    /\ attempt' = <<[call |-> "reset", n |-> IF attempt = None THEN 0 ELSE attempt[1].n,
                     cleared |-> <<ctrl[1].st>>]>>
    /\ UNCHANGED NotCtrl

SpecControllerReset == InitController /\ [][ControllerStepCall \/ ControllerResetCall]_vars

\* ----------------------------------------------------------------- C35
\* the last call was a step() made after a reset()
SteppedAfterReset ==
    attempt # None /\ attempt[1].call = "step" /\ attempt[1].fresh # None

\* C35: for both controllers, after any sequence of steps followed by reset(),
\* every step returns exactly the outputs that a controller constructed with
\* the same parameters at the time of the reset returns for the same inputs.
C35_ResetEqualsFresh ==
    SteppedAfterReset => attempt[1].outputs = attempt[1].fresh[1]

\* reset() leaves the internal state of a newly constructed controller, and
\* the two controllers stay in the same state from then on
ResetStateEqualsFresh == Len(ctrl) = 2 => ctrl[1] = ctrl[2]

\* a PID controller whose integral, last error and duty had all left 0 was
\* reset and then stepped, returning a non-zero duty
C35_Witness ==
    /\ SteppedAfterReset
    /\ ctrl[1].kind = "pid"
    /\ attempt[1].cleared[1].integrator # R0
    /\ attempt[1].cleared[1].last_error # R0
    /\ attempt[1].cleared[1].duty # R0
    /\ attempt[1].outputs.heater_duty # R0

\* the same for a bang-bang controller that had reached a duty of 1/2
ResetBangBangStepped ==
    /\ SteppedAfterReset
    /\ ctrl[1].kind = "bang_bang"
    /\ attempt[1].cleared[1].current_duty = Rat(1, 2)
    /\ attempt[1].outputs.heater_duty = Rat(1, 4)

\* ============================================== claims of SpecRunner, ctd.
\* a LinkMonitorRef with the runner's thresholds after i calls of
\* step(valid = TRUE, crc_fail = ev[j].crc_fail), j = 1..i, from construction
RECURSIVE MonitorAfter(_, _)
MonitorAfter(ev, i) ==
    IF i = 0 THEN ResetState
    ELSE LinkMonitorRef_step(MonitorAfter(ev, i - 1), params, TRUE, ev[i].crc_fail)

\* ----------------------------------------------------------------- C36
\* C36: for equal thresholds and any sequence of pass/fail events, the sample
\* returned by the i-th LinkRunner.step has the link_up, total_frames,
\* total_crc_fails, consec_fails and consec_passes of a LinkMonitorRef after i
\* calls of step(valid=True, crc_fail=...) on the same sequence, and carries
\* the event's cycle number.
C36_RunnerRefinesMonitor ==
    /\ Len(samples) = Len(events)
    /\ \A i \in 1..Len(samples) :
         LET m == MonitorAfter(events, i) IN
         /\ samples[i].link_up = m.link_up
         /\ samples[i].total_frames = m.total_frames
         /\ samples[i].total_crc_fails = m.total_crc_fails
         /\ samples[i].consec_fails = m.consec_fails
         /\ samples[i].consec_passes = m.consec_passes
         /\ samples[i].cycle = events[i].cycle

\* three events, fail, fail, pass, at cycles 0, 1, 1: the link went down at
\* the second and the third sample shows one pass
C36_Witness ==
    /\ Len(samples) = 3
    /\ params.fails_to_down = 2 /\ params.passes_to_up = 2
    /\ events[1].crc_fail /\ events[2].crc_fail /\ ~events[3].crc_fail
    /\ events[1].cycle = 0 /\ events[2].cycle = 1 /\ events[3].cycle = 1
    /\ samples[1].link_up /\ ~samples[2].link_up /\ ~samples[3].link_up
    /\ samples[3].consec_passes = 1 /\ samples[3].total_crc_fails = 2

\* ==================================================== claims of Spec, ctd.
\* ----------------------------------------------------------------- C37
\* C37: with fails_to_down >= 1 and passes_to_up >= 1, in every reachable
\* link-monitor state link_up = true implies consec_fails < fails_to_down and
\* link_up = false implies consec_passes < passes_to_up.
C37_StreakBelowThreshold ==
    (params.fails_to_down >= 1 /\ params.passes_to_up >= 1) =>
        /\ state.link_up => state.consec_fails < params.fails_to_down
        /\ ~state.link_up => state.consec_passes < params.passes_to_up

\* with thresholds 3 and 2 the link went down at the third failure in a row,
\* has seen one pass since and is one pass short of coming up
C37_Witness ==
    /\ params.fails_to_down = 3 /\ params.passes_to_up = 2
    /\ ~state.link_up
    /\ state.total_crc_fails = 3
    /\ state.consec_passes = 1
    /\ state.total_frames >= 5

\* the link is up after a recovery, two failures into a new streak
UpBelowThreshold ==
    /\ params.fails_to_down = 3 /\ params.passes_to_up = 1
    /\ state.link_up
    /\ state.consec_fails = 2
    /\ state.total_crc_fails = 5

\* ============================================== claims of SpecKernel, ctd.
\* ----------------------------------------------------------------- C38
\* C38: every time-series sample the kernel records has heater_duty and
\* workload_frac within [0, 1], in open-loop mode (for any schedule) as well
\* as in closed-loop mode.
C38_RecordedInputsInUnit ==
    loc # None =>
        \A i \in 1..Len(loc[1].timeseries) :
            /\ InUnit(loc[1].timeseries[i].heater_duty)
            /\ InUnit(loc[1].timeseries[i].workload_frac)

\* the samples recorded while the controller was active have a heater_duty
\* within the controller's [min_duty, max_duty]
ClosedLoopDutyInRange ==
    (loc # None /\ HasController) =>
        \A i \in 1..Len(loc[1].timeseries) :
            loc[1].timeseries[i].controller_active =>
                InDutyRange(W.controller[1].p, loc[1].timeseries[i].heater_duty)

\* the samples recorded in open loop carry the schedule's values as they are
OpenLoopRecordsSchedule ==
    (loc # None /\ HasSchedule) =>
        \A i \in 1..Len(loc[1].timeseries) :
            ~loc[1].timeseries[i].controller_active =>
                /\ loc[1].timeseries[i].heater_duty =
                       Schedule_call(W.schedule[1], loc[1].timeseries[i].cycle).heater_duty
                /\ loc[1].timeseries[i].workload_frac =
                       Schedule_call(W.schedule[1], loc[1].timeseries[i].cycle).workload_frac

\* an open-loop sample with a recorded heater_duty of 3/2 and the temperature
\* that a duty of 1 gives from 25 degrees in one schedule timestep
RecordedAboveOne ==
    /\ loc # None /\ Len(loc[1].timeseries) >= 1
    /\ loc[1].timeseries[1].heater_duty = Rat(3, 2)
    /\ loc[1].timeseries[1].temp_c = Rat(26, 1)

\* ========================================================== SpecSnapshot
\* Lists as objects. A caller runs a kernel with a plant, a schedule and a
\* link runner, keeps the RunResult, and then calls the runner, its monitor
\* and the kernel again. In this specification every Python list other than
\* the runner's own two is an object in `heap`, next to the monitor's state,
\* and `loc`, `result` and the caller hold references to lists:
\*   [kind |-> "heap", at |-> i]     the list object heap[i]
\*   [kind |-> "samples", at |-> 0]  the runner's list _samples
\*   [kind |-> "events", at |-> 0]   the runner's list _events
\* `firstResult` is the first RunResult by value, as it was when run()
\* returned; `attempt` is what the caller holds: the first RunResult (its
\* references), the list it last got from the runner, and its last call.
HeapRef(i) == [kind |-> "heap", at |-> i]

\* the mutable lists: the object store and the runner's two lists
Mem == [heap |-> heap, events |-> events, samples |-> samples]

\* the contents of the list that ref refers to
Read(m, ref) ==
    IF ref.kind = "samples" THEN m.samples
    ELSE IF ref.kind = "events" THEN m.events
    ELSE m.heap[ref.at]

\* an in-place change (append, clear) of the list that ref refers to
Write(m, ref, v) ==
    IF ref.kind = "samples" THEN [m EXCEPT !.samples = v]
    ELSE IF ref.kind = "events" THEN [m EXCEPT !.events = v]
    ELSE [m EXCEPT !.heap[ref.at] = v]

\* a new list object with contents v
NewList(m, v) ==
    [mem |-> [m EXCEPT !.heap = Append(@, v)], ref |-> HeapRef(Len(m.heap) + 1)]

\* a get_samples() that hands out the runner's own list
get_samples_shared(m) == [mem |-> m, ref |-> [kind |-> "samples", at |-> 0]]

\* LinkRunner.get_samples(): list(self._samples), a new list
get_samples_list(m) == NewList(m, m.samples)

\* LinkRunner.get_events(): list(self._events), a new list
get_events_list(m) == NewList(m, m.events)

\* run(): the four new lists chunks, timeseries, events, link_states, and
\* cur = idx = 0
Run_new_locals(m) ==
    LET a == NewList(m, <<>>)
        b == NewList(a.mem, <<>>)
        c == NewList(b.mem, <<>>)
        d == NewList(c.mem, <<>>)
    IN [mem |-> d.mem,
        loc |-> [cur |-> 0, idx |-> 0, chunks |-> a.ref, timeseries |-> b.ref,
                 events |-> c.ref, link_states |-> d.ref]]

\* the locals of run() with the contents of the lists they refer to
LocalsRead(m, L) ==
    [cur |-> L.cur, idx |-> L.idx, chunks |-> Read(m, L.chunks),
     timeseries |-> Read(m, L.timeseries), events |-> Read(m, L.events),
     link_states |-> Read(m, L.link_states)]

\* the lists of the locals L after the appends that took the contents to V
LocalsWrite(m, L, V) ==
    Write(Write(Write(Write(m, L.chunks, V.chunks), L.timeseries, V.timeseries),
                L.events, V.events),
          L.link_states, V.link_states)

\* The RunResult that run() returns: it refers to the lists of the locals.
RunResult_of_locals(m, L, c) ==
    [metrics |-> RunResult(LocalsRead(m, L), c).metrics,
     chunks |-> L.chunks, timeseries |-> L.timeseries, events |-> L.events,
     link_states |-> IF Read(m, L.link_states) # <<>> THEN <<L.link_states>> ELSE None]

\* a RunResult with the contents its lists have now
ResultRead(m, r) ==
    [metrics |-> r.metrics, chunks |-> Read(m, r.chunks),
     timeseries |-> Read(m, r.timeseries), events |-> Read(m, r.events),
     link_states |-> IF r.link_states = None THEN None
                     ELSE <<Read(m, r.link_states[1])>>]

\* the events a caller hands to the runner after the run
CallerEvents == {x \in CrcEvents : x.cycle = 0 /\ x.crc_fail_prob = 0}

InitSnapshot ==
    /\ InitKernel
    /\ Cfg.cycles \in 1..2 /\ Cfg.cycle_chunks = 1
    /\ HasPlant /\ HasSchedule /\ ~HasController /\ HasLink
    /\ W.plant[1].initial_temp_c = Rat(25, 1)
    /\ W.schedule[1].heater = Rat(1, 2)

SetMem(m) == heap' = m.heap /\ events' = m.events /\ samples' = m.samples

\* kernel.run(), from its entry to the loop, the first time or again: new
\* lists, then link_runner.reset(), which clears the runner's lists in place.
SnapshotRunStart ==
    /\ pc = "idle" \/ (pc = "done" /\ runKind = "first")
    /\ \E n \in {Run_new_locals(Mem)} :
         /\ loc' = <<n.loc>>
         /\ SetMem([heap |-> Append(n.mem.heap, LinkRunner_reset(Runner).ref),
                    events |-> LinkRunner_reset(Runner).events,
                    samples |-> LinkRunner_reset(Runner).samples])
         /\ mon' = Len(n.mem.heap) + 1
    /\ runKind' = IF pc = "done" THEN "rerun" ELSE runKind
    /\ pc' = "running"
    /\ result' = None
    /\ attempt' = IF attempt = None THEN attempt ELSE <<[attempt[1] EXCEPT !.last = "run"]>>
    /\ UNCHANGED <<cfg, wiring, thermal_state, last_outputs, ctrl, rngStream, rngPos,
                   firstResult, history>>
    /\ UNCHANGED monitorLogs

\* One pass of the loop of run(): the appends go to the lists of the locals
\* and, through link_runner.step, to the runner's own lists.
SnapshotLoopIter ==
    /\ pc = "running"
    /\ loc[1].cur < Cfg.cycles
    /\ \E u \in NextDraw(rngStream, rngPos) :
       \E b \in {Loop_body(LocalsRead(Mem, loc[1]),
                            [thermal_state |-> thermal_state, last_outputs |-> last_outputs,
                             ctrl |-> ctrl, runner |-> Runner],
                            Cfg, W, u)} :
         /\ loc' = <<[loc[1] EXCEPT !.cur = b.loc.cur, !.idx = b.loc.idx]>>
         /\ SetMem(LocalsWrite([heap |-> [heap EXCEPT ![mon] = b.k.runner.ref],
                                events |-> b.k.runner.events,
                                samples |-> b.k.runner.samples],
                               loc[1], b.loc))
         /\ thermal_state' = b.k.thermal_state
         /\ last_outputs' = b.k.last_outputs
         /\ rngPos' = IF b.drew THEN rngPos + 1 ELSE rngPos
         /\ rngStream' = IF b.drew /\ rngPos >= Len(rngStream)
                         THEN Append(rngStream, u) ELSE rngStream
    /\ UNCHANGED <<mon, cfg, wiring, ctrl, pc, result, firstResult, runKind, history, attempt>>
    /\ UNCHANGED monitorLogs

\* run() returns; the caller keeps the first RunResult.
SnapshotRunFinish ==
    /\ pc = "running"
    /\ ~(loc[1].cur < Cfg.cycles)
    /\ result' = <<RunResult_of_locals(Mem, loc[1], Cfg)>>
    /\ firstResult' = IF runKind = "first" THEN <<ResultRead(Mem, result'[1])>>
                      ELSE firstResult
    /\ attempt' = IF runKind = "first"
                  THEN <<[held |-> result'[1], got |-> None, calls |-> 0, modified |-> 0,
                          last |-> "run"]>>
                  ELSE attempt
    /\ pc' = "done"
    /\ UNCHANGED <<heap, mon, events, samples, cfg, wiring, thermal_state, last_outputs,
                   ctrl, rngStream, rngPos, loc, runKind, history>>
    /\ UNCHANGED monitorLogs

\* the caller's bookkeeping after one more call
Called(what) == attempt' = <<[attempt[1] EXCEPT !.calls = @ + 1, !.last = what]>>

SnapshotRunVars ==
    <<cfg, wiring, thermal_state, last_outputs, ctrl, rngStream, rngPos,
      pc, loc, result, firstResult, runKind, history>>

SnapshotKernelVars == <<mon, SnapshotRunVars>>

\* After a run: a call runner.step(event).
SnapshotRunnerStep ==
    /\ pc = "done" /\ attempt[1].calls < MaxCalls
    /\ \E e \in CallerEvents :
       \E r \in {LinkRunner_step(Runner, params, e)} :
         SetMem([heap |-> [heap EXCEPT ![mon] = r.ref], events |-> r.events,
                 samples |-> r.samples])
    /\ Called("runner.step")
    /\ UNCHANGED SnapshotKernelVars
    /\ UNCHANGED monitorLogs

\* After a run: a call runner.reset().
SnapshotRunnerReset ==
    /\ pc = "done" /\ attempt[1].calls < MaxCalls
    /\ \E r \in {LinkRunner_reset(Runner)} :
         SetMem([heap |-> Append(heap, r.ref), events |-> r.events,
                 samples |-> r.samples])
    /\ mon' = Len(heap) + 1
    /\ Called("runner.reset")
    /\ UNCHANGED SnapshotRunVars
    /\ UNCHANGED monitorLogs

\* After a run: a call step(valid, crc_fail) on the runner's monitor.
SnapshotMonitorStep ==
    /\ pc = "done" /\ attempt[1].calls < MaxCalls
    /\ \E f \in Frames :
         heap' = [heap EXCEPT ![mon] = LinkMonitorRef_step(heap[mon], params, f.valid, f.crc_fail)]
    /\ Called("monitor.step")
    /\ UNCHANGED <<events, samples>>
    /\ UNCHANGED SnapshotKernelVars
    /\ UNCHANGED monitorLogs

\* After a run: a call reset() on the runner's monitor.
SnapshotMonitorReset ==
    /\ pc = "done" /\ attempt[1].calls < MaxCalls
    /\ LET n == LinkMonitorRef_reset(heap) IN heap' = n.heap /\ mon' = n.self
    /\ Called("monitor.reset")
    /\ UNCHANGED <<events, samples>>
    /\ UNCHANGED SnapshotRunVars
    /\ UNCHANGED monitorLogs

\* After a run: the caller calls get_samples() or get_events() and keeps the
\* list it is given.
SnapshotGet ==
    /\ pc = "done"
    /\ attempt[1].calls < MaxCalls
    /\ \E which \in {"samples", "events"} :
       \E g \in {IF which = "samples" THEN get_samples_list(Mem) ELSE get_events_list(Mem)} :
         /\ SetMem(g.mem)
         /\ attempt' = <<[attempt[1] EXCEPT !.got = <<[ref |-> g.ref, of |-> which]>>,
                                            !.calls = @ + 1, !.last = "get"]>>
    /\ UNCHANGED SnapshotKernelVars
    /\ UNCHANGED monitorLogs

\* After a run: the caller clears the list it was given (if it has
\* elements), or appends to it.
SnapshotModify ==
    /\ pc = "done"
    /\ attempt[1].got # None
    /\ attempt[1].calls < MaxCalls
    /\ \E v \in {Append(Read(Mem, attempt[1].got[1].ref), "x")} \cup
                  {w \in {<<>>} : Read(Mem, attempt[1].got[1].ref) # <<>>} :
         SetMem(Write(Mem, attempt[1].got[1].ref, v))
    /\ attempt' = <<[attempt[1] EXCEPT !.calls = @ + 1, !.modified = @ + 1,
                                       !.last = "modify"]>>
    /\ UNCHANGED SnapshotKernelVars
    /\ UNCHANGED monitorLogs

NextSnapshot ==
    \/ SnapshotRunStart \/ SnapshotLoopIter \/ SnapshotRunFinish
    \/ SnapshotRunnerStep \/ SnapshotRunnerReset
    \/ SnapshotMonitorStep \/ SnapshotMonitorReset
    \/ SnapshotGet \/ SnapshotModify

SpecSnapshot == InitSnapshot /\ [][NextSnapshot]_vars

\* ----------------------------------------------------------------- C39
\* C39: a RunResult returned by run() is a stable snapshot: later step(),
\* reset() or run() calls on the same kernel, link runner or link monitor
\* change neither the contents nor the length of its chunks, timeseries,
\* events or link_states lists; and the lists returned by get_samples() and
\* get_events() are copies: they have the contents of the runner's history,
\* and modifying them does not change that history.
C39_StableSnapshot ==
    [][attempt # None =>
        /\ attempt' # None /\ attempt'[1].held = attempt[1].held
        /\ ResultRead(Mem', attempt[1].held) = ResultRead(Mem, attempt[1].held)
        /\ (attempt'[1].calls > attempt[1].calls /\ attempt'[1].last = "get") =>
              /\ Read(Mem', attempt'[1].got[1].ref) =
                     (IF attempt'[1].got[1].of = "samples" THEN samples ELSE events)
              /\ samples' = samples
              /\ events' = events
        /\ (attempt'[1].calls > attempt[1].calls /\ attempt'[1].last = "modify") =>
              /\ samples' = samples
              /\ events' = events
              /\ Read(Mem', attempt[1].got[1].ref) # Read(Mem, attempt[1].got[1].ref)]_vars

\* the RunResult the caller holds has the contents it had when run() returned
HeldEqualsFirst ==
    attempt # None => ResultRead(Mem, attempt[1].held) = firstResult[1]

\* the caller holds a RunResult of two cycles with two link states; since
\* then the kernel has run again, giving other contents, and the runner's
\* history is empty after a reset
C39_Witness ==
    /\ attempt # None
    /\ runKind = "rerun" /\ pc = "done"
    /\ Len(firstResult[1].timeseries) = 2
    /\ firstResult[1].link_states # None
    /\ ResultRead(Mem, result[1]).timeseries # firstResult[1].timeseries
    /\ attempt[1].last = "runner.reset"
    /\ samples = <<>>

\* the caller has cleared the list get_samples() gave it while the runner's
\* history holds two samples
ClearedCopy ==
    /\ attempt # None /\ attempt[1].last = "modify"
    /\ attempt[1].got[1].of = "samples"
    /\ Read(Mem, attempt[1].got[1].ref) = <<>>
    /\ Len(samples) = 2
====
